---- MODULE Spec2Model ----
(***************************************************************************)
(* The Fortran binding type catalogue of ompi_bindings/fortran_type.py:    *)
(* the registry FortranType.TYPES, the descriptor instances built through  *)
(* FortranType.construct, and the fragments every registered class returns *)
(* from the methods of the descriptor contract.                            *)
(*                                                                         *)
(* Python strings are TLA+ strings, an f-string is the concatenation of    *)
(* its parts, and every class statement of the module is one operator      *)
(* C(m, self) that gives the result of method m on instance self.          *)
(***************************************************************************)
EXTENDS Integers, Sequences, FiniteSets, TLC

VARIABLES
    TYPES,      \* FortranType.TYPES: the dict from type name to class
    loaded,     \* number of class statements of the module executed so far
    objs,       \* the live descriptor instances, in order of construction
    log,        \* per instance, the calls made on it and what they returned
    ret,        \* the last call: what was called, on what, and its outcome
    env,        \* per instance, the Fortran variables of the generated wrapper
    registered  \* every registration made so far, oldest first

vars == <<TYPES, loaded, objs, log, ret, env, registered>>

----------------------------------------------------------------------------
\* Bounds of the exploration.

\* tmp_counter() is called at most this many times on one instance
MaxCounters == 2
\* at most this many descriptors are alive together
MaxObjs == 2
\* at most this many calls are recorded in a traced pass
MaxCalls == 3
\* registrations callers make after the module body has run
MaxAdds == 2
\* a logical array argument has at most this many elements
MaxLen == 2

----------------------------------------------------------------------------
\* Python values.

\* The None singleton; it is not a string, so it is kept apart from every
\* text a caller can pass as count_param.
None == "<None>"

\* str(v) as an f-string placeholder applies it: a string is itself, None
\* reads 'None'.
str(v) == IF v = None THEN "None" ELSE v

\* format of a non-negative int in an f-string placeholder: its decimal digits
RECURSIVE decimal(_)
decimal(n) ==
    LET digit == <<"0", "1", "2", "3", "4", "5", "6", "7", "8", "9">>
    IN  IF n < 10 THEN digit[n + 1] ELSE decimal(n \div 10) \o digit[(n % 10) + 1]

\* sub in s
Contains(s, sub) ==
    \E k \in 1..(Len(s) - Len(sub) + 1) : SubSeq(s, k, k + Len(sub) - 1) = sub

\* s.startswith(prefix)
StartsWith(s, prefix) ==
    Len(prefix) <= Len(s) /\ SubSeq(s, 1, Len(prefix)) = prefix

\* s.endswith(suffix)
EndsWith(s, suffix) ==
    Len(suffix) <= Len(s) /\ SubSeq(s, Len(s) - Len(suffix) + 1, Len(s)) = suffix

----------------------------------------------------------------------------
\* class FortranType(ABC), lines 20-109

\* A constructor that numbers an instance's temporaries from the number of
\* descriptors already alive instead of from 0.
init_counted(class_, kwargs) ==
    [cls |-> class_,
     name |-> kwargs.name,
     fn_name |-> kwargs.fn_name,
     bigcount |-> kwargs.bigcount,
     count_param |-> kwargs.count_param,
     gen_f90 |-> kwargs.gen_f90,
     used_counters |-> Len(objs)]

\* FortranType.__init__: the attributes of a new instance of class_
init(class_, kwargs) ==
    [cls           |-> class_,
     name          |-> kwargs.name,
     fn_name       |-> kwargs.fn_name,
     bigcount      |-> kwargs.bigcount,
     count_param   |-> kwargs.count_param,
     gen_f90       |-> kwargs.gen_f90,
     used_counters |-> 0]

\* property tmp_name
tmp_name(self) == "c_" \o str(self.name)

\* property tmp_name2
tmp_name2(self) == "c_" \o str(self.name) \o "2"

\* self.m(): the method is looked up on the class of the instance
RECURSIVE call(_, _), FortranType(_, _)

\* The methods FortranType defines itself. declare and c_parameter are
\* abstract: every registered class defines or inherits an override.
FortranType(m, self) ==
    CASE m = "interface_predeclare" -> ""
      [] m = "declare_tmp" -> ""
      [] m = "declare_cbinding_fortran" -> call(self, "declare")
      [] m = "argument" -> self.name
      [] m = "use" -> <<>>
      [] m = "include" -> ""
      [] m = "post" -> ""
      [] m = "pre_c_call" -> ""

----------------------------------------------------------------------------
\* The registered classes, in the order of the module body.

\* A COUNT class whose c_parameter() is the narrow type whatever bigcount is.
CountType_narrow(m, self) ==
    CASE m = "declare" ->
            IF self.bigcount
            THEN
                "INTEGER(KIND=MPI_COUNT_KIND), INTENT(IN) :: " \o str(self.name)
            ELSE
                "INTEGER, INTENT(IN) :: " \o str(self.name)
      [] m = "use" ->
            IF self.gen_f90 = FALSE
            THEN
                <<<<"mpi_f08_types", "MPI_COUNT_KIND">>>>
            ELSE
                <<>>
      [] m = "include" ->
            IF self.gen_f90 = FALSE
            THEN
                ""
            ELSE
                "mpif-config.h"
      [] m = "c_parameter" ->
            "MPI_Fint *" \o str(self.name)
      [] OTHER -> FortranType(m, self)

\* An AINT_COUNT class whose c_parameter() falls back to the narrow MPI_Fint.
AintCountTypeIn_fint(m, self) ==
    CASE m = "declare" ->
            IF self.bigcount
            THEN
                "INTEGER(KIND=MPI_COUNT_KIND), INTENT(IN) :: " \o str(self.name)
            ELSE
                "INTEGER(KIND=MPI_ADDRESS_KIND), INTENT(IN) :: " \o str(self.name)
      [] m = "use" ->
            IF self.bigcount
            THEN
                <<<<"mpi_f08_types", "MPI_COUNT_KIND">>>>
            ELSE
                IF self.gen_f90 = FALSE
                THEN
                    <<<<"mpi_f08_types", "MPI_ADDRESS_KIND">>>>
                ELSE
                    <<>>
      [] m = "include" ->
            IF self.gen_f90 = FALSE
            THEN
                ""
            ELSE
                "mpif-config.h"
      [] m = "c_parameter" ->
            LET type_ == IF self.bigcount THEN "MPI_Count" ELSE "MPI_Fint" IN
            str(type_) \o " *" \o str(self.name)
      [] OTHER -> FortranType(m, self)

\* A copy-callback class that passes the procedure itself to the C routine.
CommCopyAttrFnType_direct(m, self) ==
    CASE m = "declare" ->
            IF self.gen_f90 = FALSE
            THEN
                "PROCEDURE(MPI_Comm_copy_attr_function) :: " \o str(self.name)
            ELSE
                "EXTERNAL " \o str(self.name)
      [] m = "declare_cbinding_fortran" ->
            "type(c_funptr) :: " \o str(self.name)
      [] m = "argument" ->
            self.name
      [] m = "declare_tmp" ->
            "type(c_funptr)::" \o str(tmp_name(self))
      [] m = "use" ->
            IF self.gen_f90 = FALSE
            THEN
                <<<<"mpi_f08_interfaces_callbacks", "MPI_Comm_copy_attr_function">>, <<"iso_c_binding", "c_funloc">>, <<"iso_c_binding", "c_funptr">>>>
            ELSE
                <<>>
      [] m = "c_parameter" ->
            "ompi_aint_copy_attr_function " \o str(self.name)
      [] m = "pre_c_call" ->
            str(tmp_name(self)) \o " = c_funloc(" \o str(self.name) \o ")"
      [] OTHER -> FortranType(m, self)


\* A CHAR_ARRAY class that hands the Fortran string to C as it is.
CharArray_unterminated(m, self) ==
    CASE m = "declare" ->
            "CHARACTER(LEN=*), INTENT(IN) :: " \o str(self.name)
      [] m = "use" ->
            <<<<"iso_c_binding", "c_char">>, <<"iso_c_binding", "c_null_char">>>>
      [] m = "declare_cbinding_fortran" ->
            "CHARACTER(KIND=C_CHAR), INTENT(IN) :: " \o str(self.name) \o "(*)"
      [] m = "argument" ->
            str(self.name)
      [] m = "c_parameter" ->
            "char *" \o str(self.name)
      [] OTHER -> FortranType(m, self)

\* A FILE_ERRHANDLER_FN class that takes the methods it does not define from
\* the first definition of CommErrhandlerFnType (lines 1347-1377).
FileErrhandlerFnType_early(m, self) ==
    CASE m = "declare" ->
            IF self.gen_f90 = FALSE
            THEN
                "PROCEDURE(MPI_File_errhandler_function) :: " \o str(self.name)
            ELSE
                "EXTERNAL " \o str(self.name)
      [] m = "use" ->
            IF self.gen_f90 = FALSE
            THEN
                <<<<"mpi_f08_interfaces_callbacks", "MPI_File_errhandler_function">>, <<"iso_c_binding", "c_funloc">>, <<"iso_c_binding", "c_funptr">>>>
            ELSE
                <<>>
      [] m = "declare_cbinding_fortran" ->
            "INTEGER, INTENT(IN) :: " \o str(self.name)
      [] m = "argument" ->
            IF self.gen_f90 = FALSE
            THEN
                str(self.name) \o "%MPI_VAL"
            ELSE
                str(self.name)
      [] m = "declare_tmp" ->
            "type(c_funptr) :: " \o str(tmp_name(self))
      [] m = "c_parameter" ->
            "type(c_funptr) :: " \o str(tmp_name(self))
      [] m = "pre_c_call" ->
            str(tmp_name(self)) \o " = c_funloc(" \o str(self.name) \o ")"
      [] OTHER -> FortranType(m, self)
\* @FortranType.add('BUFFER') class BufferType(FortranType), lines 116-127
BufferType(m, self) ==
    CASE m = "interface_predeclare" ->
            "!OMPI_F08_IGNORE_TKR_PREDECL " \o str(self.name)
      [] m = "declare" ->
            "OMPI_F08_IGNORE_TKR_TYPE, INTENT(IN) :: " \o str(self.name)
      [] m = "c_parameter" ->
            "OMPI_CFI_BUFFER *" \o str(self.name)
      [] OTHER -> FortranType(m, self)

\* @FortranType.add('BUFFER_ASYNC') class BufferAsyncType(BufferType), lines 130-133
BufferAsyncType(m, self) ==
    CASE m = "declare" ->
            "OMPI_F08_IGNORE_TKR_TYPE, INTENT(IN) OMPI_ASYNCHRONOUS :: " \o str(self.name)
      [] OTHER -> BufferType(m, self)

\* @FortranType.add('BUFFER_OUT') class BufferOutType(BufferType), lines 136-139
BufferOutType(m, self) ==
    CASE m = "declare" ->
            "OMPI_F08_IGNORE_TKR_TYPE :: " \o str(self.name)
      [] OTHER -> BufferType(m, self)

\* @FortranType.add('BUFFER_ASYNC_OUT') class BufferAsyncOutType(BufferType), lines 142-145
BufferAsyncOutType(m, self) ==
    CASE m = "declare" ->
            "OMPI_F08_IGNORE_TKR_TYPE OMPI_ASYNCHRONOUS :: " \o str(self.name)
      [] OTHER -> BufferType(m, self)

\* @FortranType.add('VBUFFER') class VBufferType(FortranType), lines 148-155
VBufferType(m, self) ==
    CASE m = "declare" ->
            "OMPI_F08_IGNORE_TKR_TYPE, INTENT(IN) :: " \o str(self.name)
      [] m = "c_parameter" ->
            "OMPI_CFI_BUFFER *" \o str(self.name)
      [] OTHER -> FortranType(m, self)

\* @FortranType.add('VBUFFER_OUT') class VBufferType(FortranType), lines 158-165
\* (this class statement rebinds the name VBufferType; the class it was bound to before stays a class of its own)
VBufferType_2(m, self) ==
    CASE m = "declare" ->
            "OMPI_F08_IGNORE_TKR_TYPE :: " \o str(self.name)
      [] m = "c_parameter" ->
            "OMPI_CFI_BUFFER *" \o str(self.name)
      [] OTHER -> FortranType(m, self)

\* @FortranType.add('WBUFFER') class WBufferType(FortranType), lines 168-175
WBufferType(m, self) ==
    CASE m = "declare" ->
            "OMPI_F08_IGNORE_TKR_TYPE, INTENT(IN) :: " \o str(self.name)
      [] m = "c_parameter" ->
            "OMPI_CFI_BUFFER *" \o str(self.name)
      [] OTHER -> FortranType(m, self)

\* @FortranType.add('WBUFFER_OUT') class WBufferType(FortranType), lines 178-185
\* (this class statement rebinds the name WBufferType; the class it was bound to before stays a class of its own)
WBufferType_2(m, self) ==
    CASE m = "declare" ->
            "OMPI_F08_IGNORE_TKR_TYPE :: " \o str(self.name)
      [] m = "c_parameter" ->
            "OMPI_CFI_BUFFER *" \o str(self.name)
      [] OTHER -> FortranType(m, self)

\* @FortranType.add('C_PTR_OUT') class CptrType(FortranType), lines 188-197
CptrType(m, self) ==
    CASE m = "declare" ->
            "TYPE(C_PTR), INTENT(OUT) :: " \o str(self.name)
      [] m = "use" ->
            <<<<"ISO_C_BINDING", "C_PTR">>>>
      [] m = "c_parameter" ->
            "char *" \o str(self.name)
      [] OTHER -> FortranType(m, self)

\* @FortranType.add('COUNT') class CountType(FortranType), lines 199-221
CountType(m, self) ==
    CASE m = "declare" ->
            IF self.bigcount
            THEN
                "INTEGER(KIND=MPI_COUNT_KIND), INTENT(IN) :: " \o str(self.name)
            ELSE
                "INTEGER, INTENT(IN) :: " \o str(self.name)
      [] m = "use" ->
            IF self.gen_f90 = FALSE
            THEN
                <<<<"mpi_f08_types", "MPI_COUNT_KIND">>>>
            ELSE
                <<>>
      [] m = "include" ->
            IF self.gen_f90 = FALSE
            THEN
                ""
            ELSE
                "mpif-config.h"
      [] m = "c_parameter" ->
            LET type_ == IF self.bigcount THEN "MPI_Count" ELSE "MPI_Fint" IN
            str(type_) \o " *" \o str(self.name)
      [] OTHER -> FortranType(m, self)

\* @FortranType.add('COUNT_INOUT') class CountTypeInOut(CountType), lines 223-230
CountTypeInOut(m, self) ==
    CASE m = "declare" ->
            IF self.bigcount
            THEN
                "INTEGER(KIND=MPI_COUNT_KIND), INTENT(INOUT) :: " \o str(self.name)
            ELSE
                "INTEGER, INTENT(INOUT) :: " \o str(self.name)
      [] OTHER -> CountType(m, self)

\* @FortranType.add('COUNT_OUT') class CountTypeInOut(CountType), lines 232-239
\* (this class statement rebinds the name CountTypeInOut; the class it was bound to before stays a class of its own)
CountTypeInOut_2(m, self) ==
    CASE m = "declare" ->
            IF self.bigcount
            THEN
                "INTEGER(KIND=MPI_COUNT_KIND), INTENT(OUT) :: " \o str(self.name)
            ELSE
                "INTEGER, INTENT(OUT) :: " \o str(self.name)
      [] OTHER -> CountType(m, self)

\* @FortranType.add('PARTITIONED_COUNT') class PartitionedCountType(FortranType), lines 242-254
PartitionedCountType(m, self) ==
    CASE m = "declare" ->
            "INTEGER(KIND=MPI_COUNT_KIND), INTENT(IN) :: " \o str(self.name)
      [] m = "use" ->
            IF self.gen_f90 = FALSE
            THEN
                <<<<"mpi_f08_types", "MPI_COUNT_KIND">>>>
            ELSE
                <<>>
      [] m = "c_parameter" ->
            "MPI_Count *" \o str(self.name)
      [] OTHER -> FortranType(m, self)

\* @FortranType.add('DATATYPE') class DatatypeType(FortranType), lines 257-281
DatatypeType(m, self) ==
    CASE m = "declare" ->
            IF self.gen_f90 = FALSE
            THEN
                "TYPE(MPI_Datatype), INTENT(IN) :: " \o str(self.name)
            ELSE
                "INTEGER, INTENT(IN) :: " \o str(self.name)
      [] m = "declare_cbinding_fortran" ->
            "INTEGER, INTENT(IN) :: " \o str(self.name)
      [] m = "argument" ->
            IF self.gen_f90 = FALSE
            THEN
                str(self.name) \o "%MPI_VAL"
            ELSE
                str(self.name)
      [] m = "use" ->
            IF self.gen_f90 = FALSE
            THEN
                <<<<"mpi_f08_types", "MPI_Datatype">>>>
            ELSE
                <<>>
      [] m = "c_parameter" ->
            "MPI_Fint *" \o str(self.name)
      [] OTHER -> FortranType(m, self)

\* @FortranType.add('DATATYPE_OUT') class DatatypeTypeOut(DatatypeType), lines 283-292
DatatypeTypeOut(m, self) ==
    CASE m = "declare" ->
            IF self.gen_f90 = FALSE
            THEN
                "TYPE(MPI_Datatype), INTENT(OUT) :: " \o str(self.name)
            ELSE
                "INTEGER, INTENT(OUT) :: " \o str(self.name)
      [] m = "declare_cbinding_fortran" ->
            "INTEGER, INTENT(OUT) :: " \o str(self.name)
      [] OTHER -> DatatypeType(m, self)

\* @FortranType.add('DATATYPE_INOUT') class DatatypeTypeInOut(DatatypeType), lines 294-303
DatatypeTypeInOut(m, self) ==
    CASE m = "declare" ->
            IF self.gen_f90 = FALSE
            THEN
                "TYPE(MPI_Datatype), INTENT(INOUT) :: " \o str(self.name)
            ELSE
                "INTEGER, INTENT(INOUT) :: " \o str(self.name)
      [] m = "declare_cbinding_fortran" ->
            "INTEGER, INTENT(INOUT) :: " \o str(self.name)
      [] OTHER -> DatatypeType(m, self)

\* @FortranType.add('DATATYPE_ARRAY') class DatatypeArrayType(FortranType), lines 305-320
DatatypeArrayType(m, self) ==
    CASE m = "declare" ->
            IF self.gen_f90 = FALSE
            THEN
                "TYPE(MPI_Datatype), INTENT(IN) :: " \o str(self.name) \o "(*)"
            ELSE
                "INTEGER, INTENT(IN) :: " \o str(self.name) \o "(*)"
      [] m = "use" ->
            IF self.gen_f90 = FALSE
            THEN
                <<<<"mpi_f08_types", "MPI_Datatype">>>>
            ELSE
                <<>>
      [] m = "c_parameter" ->
            "MPI_Fint *" \o str(self.name)
      [] OTHER -> FortranType(m, self)

\* @FortranType.add('INT') class IntType(FortranType), lines 323-329
IntType(m, self) ==
    CASE m = "declare" ->
            "INTEGER, INTENT(IN) :: " \o str(self.name)
      [] m = "c_parameter" ->
            "MPI_Fint *" \o str(self.name)
      [] OTHER -> FortranType(m, self)

\* @FortranType.add('INT_OUT') class IntOutType(FortranType), lines 331-337
IntOutType(m, self) ==
    CASE m = "declare" ->
            "INTEGER, INTENT(OUT) :: " \o str(self.name)
      [] m = "c_parameter" ->
            "MPI_Fint *" \o str(self.name)
      [] OTHER -> FortranType(m, self)

\* @FortranType.add('INT_INOUT') class IntOutType(FortranType), lines 339-345
\* (this class statement rebinds the name IntOutType; the class it was bound to before stays a class of its own)
IntOutType_2(m, self) ==
    CASE m = "declare" ->
            "INTEGER, INTENT(INOUT) :: " \o str(self.name)
      [] m = "c_parameter" ->
            "MPI_Fint *" \o str(self.name)
      [] OTHER -> FortranType(m, self)

\* @FortranType.add('RANK') class RankType(IntType), lines 347-349
RankType(m, self) ==
    IntType(m, self)

\* @FortranType.add('RANK_OUT') class RankType(IntOutType), lines 351-353
\* (this class statement rebinds the name RankType; the class it was bound to before stays a class of its own)
RankType_2(m, self) ==
    IntOutType_2(m, self)

\* @FortranType.add('TAG') class TagType(IntType), lines 355-357
TagType(m, self) ==
    IntType(m, self)

\* @FortranType.add('INDEX_OUT') class IndexOutType(IntType), lines 360-363
IndexOutType(m, self) ==
    CASE m = "declare" ->
            "INTEGER, INTENT(OUT) :: " \o str(self.name)
      [] OTHER -> IntType(m, self)

\* @FortranType.add('LOGICAL') class LogicalType(IntType), lines 366-391
LogicalType(m, self) ==
    CASE m = "declare" ->
            "LOGICAL, INTENT(IN) :: " \o str(self.name)
      [] m = "declare_tmp" ->
            "INTEGER :: " \o str(tmp_name(self)) \o " = 0"
      [] m = "declare_cbinding_fortran" ->
            "INTEGER, INTENT(IN) :: " \o str(self.name)
      [] m = "argument" ->
            tmp_name(self)
      [] m = "pre_c_call" ->
            str(tmp_name(self)) \o " = merge(1,0," \o str(self.name) \o ")"
      [] m = "c_parameter" ->
            "MPI_Fint *" \o str(self.name)
      [] OTHER -> IntType(m, self)

\* @FortranType.add('LOGICAL_ARRAY') class LogicalArrayType(IntType), lines 393-419
LogicalArrayType(m, self) ==
    CASE m = "declare" ->
            "LOGICAL, INTENT(IN) :: " \o str(self.name) \o "(" \o str(self.count_param) \o ")"
      [] m = "declare_tmp" ->
            "INTEGER :: " \o str(tmp_name(self)) \o "(" \o str(self.count_param) \o ")"
      [] m = "declare_cbinding_fortran" ->
            "INTEGER, INTENT(IN) :: " \o str(self.name) \o "(" \o str(self.count_param) \o ")"
      [] m = "argument" ->
            tmp_name(self)
      [] m = "pre_c_call" ->
            str(tmp_name(self)) \o " = merge(1,0," \o str(self.name) \o ")"
      [] m = "c_parameter" ->
            "MPI_Fint *" \o str(self.name)
      [] OTHER -> IntType(m, self)

\* @FortranType.add('LOGICAL_OUT') class LogicalOutType(IntType), lines 421-446
LogicalOutType(m, self) ==
    CASE m = "declare" ->
            "LOGICAL, INTENT(OUT) :: " \o str(self.name)
      [] m = "declare_tmp" ->
            "INTEGER :: " \o str(tmp_name(self)) \o " = 0"
      [] m = "declare_cbinding_fortran" ->
            "INTEGER, INTENT(OUT) :: " \o str(self.name)
      [] m = "argument" ->
            tmp_name(self)
      [] m = "post" ->
            str(self.name) \o " = " \o str(tmp_name(self)) \o " /= 0"
      [] m = "c_parameter" ->
            "MPI_Fint *" \o str(self.name)
      [] OTHER -> IntType(m, self)

\* @FortranType.add('LOGICAL_ARRAY_OUT') class LogicalArrayType(IntType), lines 448-474
\* (this class statement rebinds the name LogicalArrayType; the class it was bound to before stays a class of its own)
LogicalArrayType_2(m, self) ==
    CASE m = "declare" ->
            "LOGICAL, INTENT(OUT) :: " \o str(self.name) \o "(" \o str(self.count_param) \o ")"
      [] m = "declare_tmp" ->
            "INTEGER :: " \o str(tmp_name(self)) \o "(" \o str(self.count_param) \o ")"
      [] m = "declare_cbinding_fortran" ->
            "INTEGER, INTENT(OUT) :: " \o str(self.name) \o "(" \o str(self.count_param) \o ")"
      [] m = "argument" ->
            tmp_name(self)
      [] m = "pre_c_call" ->
            str(tmp_name(self)) \o " = merge(1,0," \o str(self.name) \o ")"
      [] m = "c_parameter" ->
            "MPI_Fint *" \o str(self.name)
      [] OTHER -> IntType(m, self)

\* @FortranType.add('COMM') class CommType(FortranType), lines 476-497
CommType(m, self) ==
    CASE m = "declare" ->
            IF self.gen_f90 = FALSE
            THEN
                "TYPE(MPI_Comm), INTENT(IN) :: " \o str(self.name)
            ELSE
                "INTEGER, INTENT(IN) :: " \o str(self.name)
      [] m = "declare_cbinding_fortran" ->
            "INTEGER, INTENT(IN) :: " \o str(self.name)
      [] m = "argument" ->
            str(self.name) \o "%MPI_VAL"
      [] m = "use" ->
            IF self.gen_f90 = FALSE
            THEN
                <<<<"mpi_f08_types", "MPI_Comm">>>>
            ELSE
                <<>>
      [] m = "c_parameter" ->
            "MPI_Fint *" \o str(self.name)
      [] OTHER -> FortranType(m, self)

\* @FortranType.add('COMM_OUT') class CommOutType(CommType), lines 499-508
CommOutType(m, self) ==
    CASE m = "declare" ->
            IF self.gen_f90 = FALSE
            THEN
                "TYPE(MPI_Comm), INTENT(OUT) :: " \o str(self.name)
            ELSE
                "INTEGER, INTENT(OUT) :: " \o str(self.name)
      [] m = "declare_cbinding_fortran" ->
            "INTEGER, INTENT(OUT) :: " \o str(self.name)
      [] OTHER -> CommType(m, self)

\* @FortranType.add('COMM_INOUT') class CommInOutType(CommType), lines 511-520
CommInOutType(m, self) ==
    CASE m = "declare" ->
            IF self.gen_f90 = FALSE
            THEN
                "TYPE(MPI_Comm), INTENT(INOUT) :: " \o str(self.name)
            ELSE
                "INTEGER, INTENT(INOUT) :: " \o str(self.name)
      [] m = "declare_cbinding_fortran" ->
            "INTEGER, INTENT(INOUT) :: " \o str(self.name)
      [] OTHER -> CommType(m, self)

\* @FortranType.add('GROUP') class GroupType(FortranType), lines 522-543
GroupType(m, self) ==
    CASE m = "declare" ->
            IF self.gen_f90 = FALSE
            THEN
                "TYPE(MPI_Group), INTENT(IN) :: " \o str(self.name)
            ELSE
                "INTEGER, INTENT(IN) :: " \o str(self.name)
      [] m = "declare_cbinding_fortran" ->
            "INTEGER, INTENT(IN) :: " \o str(self.name)
      [] m = "argument" ->
            str(self.name) \o "%MPI_VAL"
      [] m = "use" ->
            IF self.gen_f90 = FALSE
            THEN
                <<<<"mpi_f08_types", "MPI_Group">>>>
            ELSE
                <<>>
      [] m = "c_parameter" ->
            "MPI_Fint *" \o str(self.name)
      [] OTHER -> FortranType(m, self)

\* @FortranType.add('GROUP_OUT') class GroupOutType(GroupType), lines 545-554
GroupOutType(m, self) ==
    CASE m = "declare" ->
            IF self.gen_f90 = FALSE
            THEN
                "TYPE(MPI_Group), INTENT(OUT) :: " \o str(self.name)
            ELSE
                "INTEGER, INTENT(OUT) :: " \o str(self.name)
      [] m = "declare_cbinding_fortran" ->
            "INTEGER, INTENT(OUT) :: " \o str(self.name)
      [] OTHER -> GroupType(m, self)

\* @FortranType.add('GROUP_INOUT') class GroupInOutType(GroupType), lines 556-565
GroupInOutType(m, self) ==
    CASE m = "declare" ->
            IF self.gen_f90 = FALSE
            THEN
                "TYPE(MPI_Group), INTENT(INOUT) :: " \o str(self.name)
            ELSE
                "INTEGER, INTENT(INOUT) :: " \o str(self.name)
      [] m = "declare_cbinding_fortran" ->
            "INTEGER, INTENT(INOUT) :: " \o str(self.name)
      [] OTHER -> GroupType(m, self)

\* @FortranType.add('SESSION') class SessionType(FortranType), lines 567-588
SessionType(m, self) ==
    CASE m = "declare" ->
            IF self.gen_f90 = FALSE
            THEN
                "TYPE(MPI_Session), INTENT(IN) :: " \o str(self.name)
            ELSE
                "INTEGER, INTENT(IN) :: " \o str(self.name)
      [] m = "declare_cbinding_fortran" ->
            "INTEGER, INTENT(IN) :: " \o str(self.name)
      [] m = "argument" ->
            str(self.name) \o "%MPI_VAL"
      [] m = "use" ->
            IF self.gen_f90 = FALSE
            THEN
                <<<<"mpi_f08_types", "MPI_Session">>>>
            ELSE
                <<>>
      [] m = "c_parameter" ->
            "MPI_Fint *" \o str(self.name)
      [] OTHER -> FortranType(m, self)

\* @FortranType.add('SESSION_OUT') class SessionOutType(SessionType), lines 590-599
SessionOutType(m, self) ==
    CASE m = "declare" ->
            IF self.gen_f90 = FALSE
            THEN
                "TYPE(MPI_Session), INTENT(OUT) :: " \o str(self.name)
            ELSE
                "INTEGER, INTENT(OUT) :: " \o str(self.name)
      [] m = "declare_cbinding_fortran" ->
            "INTEGER, INTENT(OUT) :: " \o str(self.name)
      [] OTHER -> SessionType(m, self)

\* @FortranType.add('SESSION_INOUT') class SessionInOutType(SessionType), lines 601-610
SessionInOutType(m, self) ==
    CASE m = "declare" ->
            IF self.gen_f90 = FALSE
            THEN
                "TYPE(MPI_Session), INTENT(INOUT) :: " \o str(self.name)
            ELSE
                "INTEGER, INTENT(INOUT) :: " \o str(self.name)
      [] m = "declare_cbinding_fortran" ->
            "INTEGER, INTENT(INOUT) :: " \o str(self.name)
      [] OTHER -> SessionType(m, self)

\* @FortranType.add('STATUS') class StatusType(FortranType), lines 612-633
StatusType(m, self) ==
    CASE m = "declare" ->
            IF self.gen_f90 = FALSE
            THEN
                "TYPE(MPI_Status) :: " \o str(self.name)
            ELSE
                "INTEGER :: " \o str(self.name) \o "(MPI_STATUS_SIZE)"
      [] m = "use" ->
            IF self.gen_f90 = FALSE
            THEN
                <<<<"mpi_f08_types", "MPI_Status">>>>
            ELSE
                <<>>
      [] m = "include" ->
            IF self.gen_f90 = FALSE
            THEN
                ""
            ELSE
                "mpif-config.h"
      [] m = "c_parameter" ->
            "MPI_Fint *" \o str(self.name)
      [] OTHER -> FortranType(m, self)

\* @FortranType.add('STATUS_OUT') class StatusOutType(StatusType), lines 636-646
StatusOutType(m, self) ==
    CASE m = "declare" ->
            IF self.gen_f90 = FALSE
            THEN
                "TYPE(MPI_Status), INTENT(OUT) :: " \o str(self.name)
            ELSE
                "INTEGER, INTENT(OUT) :: " \o str(self.name) \o "(MPI_STATUS_SIZE)"
      [] m = "c_parameter" ->
            "MPI_Fint *" \o str(self.name)
      [] OTHER -> StatusType(m, self)

\* @FortranType.add('STATUS_INOUT') class StatusInOutType(StatusType), lines 648-658
StatusInOutType(m, self) ==
    CASE m = "declare" ->
            IF self.gen_f90 = FALSE
            THEN
                "TYPE(MPI_Status), INTENT(INOUT) :: " \o str(self.name)
            ELSE
                "INTEGER, INTENT(INOUT) :: " \o str(self.name) \o "(MPI_STATUS_SIZE)"
      [] m = "c_parameter" ->
            "MPI_Fint *" \o str(self.name)
      [] OTHER -> StatusType(m, self)

\* @FortranType.add('REQUEST') class RequestType(FortranType), lines 660-684
RequestType(m, self) ==
    CASE m = "declare" ->
            IF self.gen_f90 = FALSE
            THEN
                "TYPE(MPI_Request), INTENT(IN) :: " \o str(self.name)
            ELSE
                "INTEGER, INTENT(IN) :: " \o str(self.name)
      [] m = "declare_cbinding_fortran" ->
            "INTEGER, INTENT(IN) :: " \o str(self.name)
      [] m = "argument" ->
            IF self.gen_f90 = FALSE
            THEN
                str(self.name) \o "%MPI_VAL"
            ELSE
                str(self.name)
      [] m = "use" ->
            IF self.gen_f90 = FALSE
            THEN
                <<<<"mpi_f08_types", "MPI_Request">>>>
            ELSE
                <<>>
      [] m = "c_parameter" ->
            "MPI_Fint *" \o str(self.name)
      [] OTHER -> FortranType(m, self)

\* @FortranType.add('REQUEST_OUT') class RequestTypeOut(RequestType), lines 686-695
RequestTypeOut(m, self) ==
    CASE m = "declare" ->
            IF self.gen_f90 = FALSE
            THEN
                "TYPE(MPI_Request), INTENT(OUT) :: " \o str(self.name)
            ELSE
                "INTEGER, INTENT(OUT) :: " \o str(self.name)
      [] m = "declare_cbinding_fortran" ->
            "INTEGER, INTENT(OUT) :: " \o str(self.name)
      [] OTHER -> RequestType(m, self)

\* @FortranType.add('REQUEST_INOUT') class RequestTypeInOut(RequestType), lines 697-703
RequestTypeInOut(m, self) ==
    CASE m = "declare" ->
            "TYPE(MPI_Request), INTENT(INOUT) :: " \o str(self.name)
      [] m = "declare_cbinding_fortran" ->
            "INTEGER, INTENT(INOUT) :: " \o str(self.name)
      [] OTHER -> RequestType(m, self)

\* @FortranType.add('REQUEST_ARRAY') class RequestArrayType(FortranType), lines 706-733
RequestArrayType(m, self) ==
    CASE m = "declare" ->
            IF self.gen_f90 = FALSE
            THEN
                "TYPE(MPI_Request), INTENT(IN) :: " \o str(self.name) \o "(" \o str(self.count_param) \o ")"
            ELSE
                "INTEGER, INTENT(IN) :: " \o str(self.name) \o "(*)"
      [] m = "declare_cbinding_fortran" ->
            IF self.gen_f90 = FALSE
            THEN
                "INTEGER, INTENT(IN) :: " \o str(self.name) \o "(" \o str(self.count_param) \o ")"
            ELSE
                "INTEGER, INTENT(IN) :: " \o str(self.name) \o "(*)"
      [] m = "argument" ->
            IF self.gen_f90 = FALSE
            THEN
                str(self.name) \o "(:)%MPI_VAL"
            ELSE
                str(self.name)
      [] m = "use" ->
            IF self.gen_f90 = FALSE
            THEN
                <<<<"mpi_f08_types", "MPI_Request">>>>
            ELSE
                <<>>
      [] m = "c_parameter" ->
            "MPI_Fint *" \o str(self.name)
      [] OTHER -> FortranType(m, self)

\* @FortranType.add('REQUEST_ARRAY_INOUT') class RequestArrayTypeInOut(RequestArrayType), lines 735-747
RequestArrayTypeInOut(m, self) ==
    CASE m = "declare" ->
            IF self.gen_f90 = FALSE
            THEN
                "TYPE(MPI_Request), INTENT(INOUT) :: " \o str(self.name) \o "(" \o str(self.count_param) \o ")"
            ELSE
                "TYPE(MPI_Request), INTENT(INOUT) :: " \o str(self.name) \o "(*)"
      [] m = "declare_cbinding_fortran" ->
            IF self.gen_f90 = FALSE
            THEN
                "INTEGER, INTENT(INOUT) :: " \o str(self.name) \o "(" \o str(self.count_param) \o ")"
            ELSE
                "INTEGER, INTENT(INOUT) :: " \o str(self.name) \o "(*)"
      [] OTHER -> RequestArrayType(m, self)

\* @FortranType.add('STATUS_ARRAY') class StatusArrayType(FortranType), lines 749-770
StatusArrayType(m, self) ==
    CASE m = "declare" ->
            IF self.gen_f90 = FALSE
            THEN
                "TYPE(MPI_Status), INTENT(OUT) :: " \o str(self.name) \o "(*)"
            ELSE
                "INTEGER, INTENT(OUT) :: " \o str(self.name) \o "(MPI_STATUS_SIZE,*)"
      [] m = "use" ->
            IF self.gen_f90 = FALSE
            THEN
                <<<<"mpi_f08_types", "MPI_Status">>>>
            ELSE
                <<>>
      [] m = "include" ->
            IF self.gen_f90 = FALSE
            THEN
                ""
            ELSE
                "mpif-config.h"
      [] m = "c_parameter" ->
            "MPI_Fint *" \o str(self.name)
      [] OTHER -> FortranType(m, self)

\* @FortranType.add('INT_ARRAY') class IntArray(FortranType), lines 772-787
IntArray(m, self) ==
    CASE m = "declare" ->
            LET size == IF self.count_param = None THEN "*" ELSE self.count_param IN
            "INTEGER, INTENT(IN) :: " \o str(self.name) \o "(" \o str(size) \o ")"
      [] m = "use" ->
            IF self.count_param = "MPI_STATUS_SIZE"
            THEN
                <<<<"mpi_f08_types", "MPI_STATUS_SIZE">>>>
            ELSE
                <<>>
      [] m = "c_parameter" ->
            "MPI_Fint *" \o str(self.name)
      [] OTHER -> FortranType(m, self)

\* @FortranType.add('INT_ARRAY_OUT') class IntArrayOut(IntArray), lines 789-798
IntArrayOut(m, self) ==
    CASE m = "declare" ->
            LET size == IF self.count_param = None THEN "*" ELSE self.count_param IN
            "INTEGER, INTENT(OUT) :: " \o str(self.name) \o "(" \o str(size) \o ")"
      [] m = "c_parameter" ->
            "MPI_Fint *" \o str(self.name)
      [] OTHER -> IntArray(m, self)

\* @FortranType.add('INT_ARRAY_INOUT') class IntArrayInOut(IntArray), lines 800-806
IntArrayInOut(m, self) ==
    CASE m = "declare" ->
            LET size == IF self.count_param = None THEN "*" ELSE self.count_param IN
            "INTEGER, INTENT(INOUT) :: " \o str(self.name) \o "(" \o str(size) \o ")"
      [] OTHER -> IntArray(m, self)

\* @FortranType.add('COUNT_ARRAY') class CountArray(IntArray), lines 808-825
CountArray(m, self) ==
    CASE m = "declare" ->
            LET kind == IF self.bigcount THEN "(KIND=MPI_COUNT_KIND)" ELSE "" IN
            LET size == IF self.count_param = None THEN "*" ELSE self.count_param IN
            "INTEGER" \o str(kind) \o ", INTENT(IN) :: " \o str(self.name) \o "(" \o str(size) \o ")"
      [] m = "use" ->
            IF self.bigcount
            THEN
                <<<<"mpi_f08_types", "MPI_COUNT_KIND">>>>
            ELSE
                <<>>
      [] m = "c_parameter" ->
            LET count_type == IF self.bigcount THEN "MPI_Count" ELSE "MPI_Fint" IN
            str(count_type) \o " *" \o str(self.name)
      [] OTHER -> IntArray(m, self)

\* @FortranType.add('AINT_COUNT_ARRAY') class CountArray(IntArray), lines 827-850
\* (this class statement rebinds the name CountArray; the class it was bound to before stays a class of its own)
CountArray_2(m, self) ==
    CASE m = "declare" ->
            LET kind == IF self.bigcount THEN "(KIND=MPI_COUNT_KIND)" ELSE "(KIND=MPI_ADDRESS_KIND)" IN
            LET size == IF self.count_param = None THEN "*" ELSE self.count_param IN
            "INTEGER" \o str(kind) \o ", INTENT(IN) :: " \o str(self.name) \o "(" \o str(size) \o ")"
      [] m = "use" ->
            IF self.bigcount
            THEN
                <<<<"mpi_f08_types", "MPI_COUNT_KIND">>>>
            ELSE
                <<<<"mpi_f08_types", "MPI_ADDRESS_KIND">>>>
      [] m = "include" ->
            IF self.gen_f90 = FALSE
            THEN
                ""
            ELSE
                "mpif-config.h"
      [] m = "c_parameter" ->
            LET count_type == IF self.bigcount THEN "MPI_Count" ELSE "MPI_Aint" IN
            str(count_type) \o " *" \o str(self.name)
      [] OTHER -> IntArray(m, self)

\* @FortranType.add('AINT') class Aint(FortranType), lines 854-874
Aint(m, self) ==
    CASE m = "declare" ->
            "INTEGER(MPI_ADDRESS_KIND), INTENT(IN) :: " \o str(self.name)
      [] m = "use" ->
            IF self.gen_f90 = FALSE
            THEN
                <<<<"mpi_f08_types", "MPI_ADDRESS_KIND">>>>
            ELSE
                <<>>
      [] m = "include" ->
            IF self.gen_f90 = FALSE
            THEN
                ""
            ELSE
                "mpif-config.h"
      [] m = "c_parameter" ->
            "MPI_Aint *" \o str(self.name)
      [] OTHER -> FortranType(m, self)

\* @FortranType.add('AINT_OUT') class AintOut(Aint), lines 877-882
AintOut(m, self) ==
    CASE m = "declare" ->
            "INTEGER(MPI_ADDRESS_KIND), INTENT(OUT) :: " \o str(self.name)
      [] OTHER -> Aint(m, self)

\* @FortranType.add('AINT_COUNT') class AintCountTypeIn(FortranType), lines 885-911
AintCountTypeIn(m, self) ==
    CASE m = "declare" ->
            IF self.bigcount
            THEN
                "INTEGER(KIND=MPI_COUNT_KIND), INTENT(IN) :: " \o str(self.name)
            ELSE
                "INTEGER(KIND=MPI_ADDRESS_KIND), INTENT(IN) :: " \o str(self.name)
      [] m = "use" ->
            IF self.bigcount
            THEN
                <<<<"mpi_f08_types", "MPI_COUNT_KIND">>>>
            ELSE
                IF self.gen_f90 = FALSE
                THEN
                    <<<<"mpi_f08_types", "MPI_ADDRESS_KIND">>>>
                ELSE
                    <<>>
      [] m = "include" ->
            IF self.gen_f90 = FALSE
            THEN
                ""
            ELSE
                "mpif-config.h"
      [] m = "c_parameter" ->
            LET type_ == IF self.bigcount THEN "MPI_Count" ELSE "MPI_Aint" IN
            str(type_) \o " *" \o str(self.name)
      [] OTHER -> FortranType(m, self)

\* @FortranType.add('AINT_COUNT_INOUT') class AintCountTypeInOut(FortranType), lines 914-931
AintCountTypeInOut(m, self) ==
    CASE m = "declare" ->
            IF self.bigcount
            THEN
                "INTEGER(KIND=MPI_COUNT_KIND), INTENT(INOUT) :: " \o str(self.name)
            ELSE
                "INTEGER(KIND=MPI_ADDRESS_KIND), INTENT(INOUT) :: " \o str(self.name)
      [] m = "use" ->
            IF self.bigcount
            THEN
                <<<<"mpi_f08_types", "MPI_COUNT_KIND">>>>
            ELSE
                <<<<"mpi_f08_types", "MPI_ADDRESS_KIND">>>>
      [] m = "c_parameter" ->
            LET type_ == IF self.bigcount THEN "MPI_Count" ELSE "MPI_Aint" IN
            str(type_) \o " *" \o str(self.name)
      [] OTHER -> FortranType(m, self)

\* @FortranType.add('AINT_COUNT_OUT') class AintCountTypeOut(FortranType), lines 934-951
AintCountTypeOut(m, self) ==
    CASE m = "declare" ->
            IF self.bigcount
            THEN
                "INTEGER(KIND=MPI_COUNT_KIND), INTENT(OUT) :: " \o str(self.name)
            ELSE
                "INTEGER(KIND=MPI_ADDRESS_KIND), INTENT(OUT) :: " \o str(self.name)
      [] m = "use" ->
            IF self.bigcount
            THEN
                <<<<"mpi_f08_types", "MPI_COUNT_KIND">>>>
            ELSE
                <<<<"mpi_f08_types", "MPI_ADDRESS_KIND">>>>
      [] m = "c_parameter" ->
            LET type_ == IF self.bigcount THEN "MPI_Count" ELSE "MPI_Aint" IN
            str(type_) \o " *" \o str(self.name)
      [] OTHER -> FortranType(m, self)

\* @FortranType.add('AINT_ARRAY') class AintArrayType(FortranType), lines 954-967
AintArrayType(m, self) ==
    CASE m = "declare" ->
            LET size == IF self.count_param = None THEN "*" ELSE self.count_param IN
            "INTEGER(KIND=MPI_ADDRESS_KIND), INTENT(IN) OMPI_ASYNCHRONOUS :: " \o str(self.name) \o "(" \o str(size) \o ")"
      [] m = "use" ->
            <<<<"mpi_f08_types", "MPI_ADDRESS_KIND">>>>
      [] m = "c_parameter" ->
            "MPI_Aint *" \o str(self.name)
      [] OTHER -> FortranType(m, self)

\* @FortranType.add('DISP') class Disp(FortranType), lines 970-985
Disp(m, self) ==
    CASE m = "declare" ->
            LET kind == IF self.bigcount THEN "(KIND=MPI_ADDRESS_KIND)" ELSE "" IN
            "INTEGER" \o str(kind) \o ", INTENT(IN) :: " \o str(self.name)
      [] m = "use" ->
            IF self.bigcount
            THEN
                <<<<"mpi_f08_types", "MPI_ADDRESS_KIND">>>>
            ELSE
                <<>>
      [] m = "c_parameter" ->
            LET count_type == IF self.bigcount THEN "MPI_Aint" ELSE "MPI_Fint" IN
            str(count_type) \o " *" \o str(self.name)
      [] OTHER -> FortranType(m, self)

\* @FortranType.add('DISP_OUT') class DispOut(FortranType), lines 987-1002
DispOut(m, self) ==
    CASE m = "declare" ->
            LET kind == IF self.bigcount THEN "(KIND=MPI_ADDRESS_KIND)" ELSE "" IN
            "INTEGER" \o str(kind) \o ", INTENT(OUT) :: " \o str(self.name)
      [] m = "use" ->
            IF self.bigcount
            THEN
                <<<<"mpi_f08_types", "MPI_ADDRESS_KIND">>>>
            ELSE
                <<>>
      [] m = "c_parameter" ->
            LET count_type == IF self.bigcount THEN "MPI_Aint" ELSE "MPI_Fint" IN
            str(count_type) \o " *" \o str(self.name)
      [] OTHER -> FortranType(m, self)

\* @FortranType.add('DISP_ARRAY') class DispArray(IntArray), lines 1005-1021
DispArray(m, self) ==
    CASE m = "declare" ->
            LET kind == IF self.bigcount THEN "(KIND=MPI_ADDRESS_KIND)" ELSE "" IN
            LET size == IF self.count_param = None THEN "*" ELSE self.count_param IN
            "INTEGER" \o str(kind) \o ", INTENT(IN) :: " \o str(self.name) \o "(" \o str(size) \o ")"
      [] m = "use" ->
            IF self.bigcount
            THEN
                <<<<"mpi_f08_types", "MPI_ADDRESS_KIND">>>>
            ELSE
                <<>>
      [] m = "c_parameter" ->
            LET count_type == IF self.bigcount THEN "MPI_Aint" ELSE "MPI_Fint" IN
            str(count_type) \o " *" \o str(self.name)
      [] OTHER -> IntArray(m, self)

\* @FortranType.add('OP') class Op(FortranType), lines 1024-1050
Op(m, self) ==
    CASE m = "declare" ->
            IF self.gen_f90 = FALSE
            THEN
                "TYPE(MPI_Op), INTENT(IN) :: " \o str(self.name)
            ELSE
                "INTEGER, INTENT(IN) :: " \o str(self.name)
      [] m = "declare_cbinding_fortran" ->
            "INTEGER, INTENT(IN) :: " \o str(self.name)
      [] m = "use" ->
            IF self.gen_f90 = FALSE
            THEN
                <<<<"mpi_f08_types", "MPI_Op">>>>
            ELSE
                <<>>
      [] m = "argument" ->
            IF self.gen_f90 = FALSE
            THEN
                str(self.name) \o "%MPI_VAL"
            ELSE
                str(self.name)
      [] m = "c_parameter" ->
            "MPI_Fint *" \o str(self.name)
      [] OTHER -> FortranType(m, self)

\* @FortranType.add('OP_INOUT') class OpInOut(Op), lines 1052-1060
OpInOut(m, self) ==
    CASE m = "declare" ->
            IF self.gen_f90 = FALSE
            THEN
                "TYPE(MPI_Op), INTENT(INOUT) :: " \o str(self.name)
            ELSE
                "INTEGER, INTENT(INOUT) :: " \o str(self.name)
      [] OTHER -> Op(m, self)

\* @FortranType.add('WIN') class Win(FortranType), lines 1062-1088
Win(m, self) ==
    CASE m = "declare" ->
            IF self.gen_f90 = FALSE
            THEN
                "TYPE(MPI_Win), INTENT(IN) :: " \o str(self.name)
            ELSE
                "INTEGER, INTENT(IN) :: " \o str(self.name)
      [] m = "declare_cbinding_fortran" ->
            "INTEGER, INTENT(IN) :: " \o str(self.name)
      [] m = "use" ->
            IF self.gen_f90 = FALSE
            THEN
                <<<<"mpi_f08_types", "MPI_Win">>>>
            ELSE
                <<>>
      [] m = "argument" ->
            IF self.gen_f90 = FALSE
            THEN
                str(self.name) \o "%MPI_VAL"
            ELSE
                str(self.name)
      [] m = "c_parameter" ->
            "MPI_Fint *" \o str(self.name)
      [] OTHER -> FortranType(m, self)

\* @FortranType.add('WIN_OUT') class WinOut(Win), lines 1090-1101
WinOut(m, self) ==
    CASE m = "declare" ->
            IF self.gen_f90 = FALSE
            THEN
                "TYPE(MPI_Win), INTENT(OUT) :: " \o str(self.name)
            ELSE
                "INTEGER, INTENT(OUT) :: " \o str(self.name)
      [] m = "declare_cbinding_fortran" ->
            "INTEGER, INTENT(OUT) :: " \o str(self.name)
      [] OTHER -> Win(m, self)

\* @FortranType.add('WIN_INOUT') class WinInOut(Win), lines 1103-1114
WinInOut(m, self) ==
    CASE m = "declare" ->
            IF self.gen_f90 = FALSE
            THEN
                "TYPE(MPI_Win), INTENT(INOUT) :: " \o str(self.name)
            ELSE
                "INTEGER, INTENT(INOUT) :: " \o str(self.name)
      [] m = "declare_cbinding_fortran" ->
            "INTEGER, INTENT(INOUT) :: " \o str(self.name)
      [] OTHER -> Win(m, self)

\* @FortranType.add('FILE') class File(FortranType), lines 1116-1133
File(m, self) ==
    CASE m = "declare" ->
            IF self.gen_f90 = FALSE
            THEN
                "TYPE(MPI_File), INTENT(IN) :: " \o str(self.name)
            ELSE
                "INTEGER, INTENT(IN) :: " \o str(self.name)
      [] m = "use" ->
            IF self.gen_f90 = FALSE
            THEN
                <<<<"mpi_f08_types", "MPI_File">>>>
            ELSE
                <<>>
      [] m = "c_parameter" ->
            "MPI_Fint *" \o str(self.name)
      [] OTHER -> FortranType(m, self)

\* @FortranType.add('FILE_OUT') class FileOut(File), lines 1135-1146
FileOut(m, self) ==
    CASE m = "declare" ->
            IF self.gen_f90 = FALSE
            THEN
                "TYPE(MPI_File), INTENT(OUT) :: " \o str(self.name)
            ELSE
                "INTEGER, INTENT(OUT) :: " \o str(self.name)
      [] m = "declare_cbinding_fortran" ->
            "INTEGER, INTENT(OUT) :: " \o str(self.name)
      [] OTHER -> File(m, self)

\* @FortranType.add('INFO') class Info(FortranType), lines 1148-1165
Info(m, self) ==
    CASE m = "declare" ->
            IF self.gen_f90 = FALSE
            THEN
                "TYPE(MPI_Info), INTENT(IN) :: " \o str(self.name)
            ELSE
                "INTEGER, INTENT(IN) :: " \o str(self.name)
      [] m = "use" ->
            IF self.gen_f90 = FALSE
            THEN
                <<<<"mpi_f08_types", "MPI_Info">>>>
            ELSE
                <<>>
      [] m = "c_parameter" ->
            "MPI_Fint *" \o str(self.name)
      [] OTHER -> FortranType(m, self)

\* @FortranType.add('INFO_OUT') class InfoOut(Info), lines 1167-1175
InfoOut(m, self) ==
    CASE m = "declare" ->
            IF self.gen_f90 = FALSE
            THEN
                "TYPE(MPI_Info), INTENT(OUT) :: " \o str(self.name)
            ELSE
                "INTEGER, INTENT(OUT) :: " \o str(self.name)
      [] OTHER -> Info(m, self)

\* @FortranType.add('INFO_INOUT') class InfoInOut(Info), lines 1177-1185
InfoInOut(m, self) ==
    CASE m = "declare" ->
            IF self.gen_f90 = FALSE
            THEN
                "TYPE(MPI_Info), INTENT(INOUT) :: " \o str(self.name)
            ELSE
                "INTEGER, INTENT(INOUT) :: " \o str(self.name)
      [] OTHER -> Info(m, self)

\* @FortranType.add('OFFSET') class Offset(FortranType), lines 1187-1207
Offset(m, self) ==
    CASE m = "declare" ->
            "INTEGER(MPI_OFFSET_KIND), INTENT(IN) :: " \o str(self.name)
      [] m = "use" ->
            IF self.gen_f90 = FALSE
            THEN
                <<<<"mpi_f08_types", "MPI_OFFSET_KIND">>>>
            ELSE
                <<>>
      [] m = "include" ->
            IF self.gen_f90 = FALSE
            THEN
                ""
            ELSE
                "mpif-config.h"
      [] m = "c_parameter" ->
            "MPI_Offset *" \o str(self.name)
      [] OTHER -> FortranType(m, self)

\* @FortranType.add('OFFSET_OUT') class OffsetOut(Offset), lines 1209-1214
OffsetOut(m, self) ==
    CASE m = "declare" ->
            "INTEGER(MPI_OFFSET_KIND), INTENT(OUT) :: " \o str(self.name)
      [] OTHER -> Offset(m, self)

\* @FortranType.add('CHAR_ARRAY') class CharArray(FortranType), lines 1217-1234
CharArray(m, self) ==
    CASE m = "declare" ->
            "CHARACTER(LEN=*), INTENT(IN) :: " \o str(self.name)
      [] m = "use" ->
            <<<<"iso_c_binding", "c_char">>, <<"iso_c_binding", "c_null_char">>>>
      [] m = "declare_cbinding_fortran" ->
            "CHARACTER(KIND=C_CHAR), INTENT(IN) :: " \o str(self.name) \o "(*)"
      [] m = "argument" ->
            str(self.name) \o "//c_null_char"
      [] m = "c_parameter" ->
            "char *" \o str(self.name)
      [] OTHER -> FortranType(m, self)

\* @FortranType.add('CHAR_ARRAY_OUT') class CharArrayOut(FortranType), lines 1236-1265
CharArrayOut(m, self) ==
    CASE m = "declare" ->
            LET size == IF self.count_param = None THEN "*" ELSE self.count_param IN
            "CHARACTER(LEN=" \o str(size) \o "), INTENT(OUT) :: " \o str(self.name)
      [] m = "use" ->
            IF self.count_param = "MPI_MAX_OBJECT_NAME"
            THEN
                <<<<"iso_c_binding", "c_char">>, <<"mpi_f08_types", "MPI_MAX_OBJECT_NAME">>>>
            ELSE
                IF self.count_param = "MPI_MAX_PORT_NAME"
                THEN
                    <<<<"iso_c_binding", "c_char">>, <<"mpi_f08_types", "MPI_MAX_PORT_NAME">>>>
                ELSE
                    IF self.count_param = "MPI_MAX_ERROR_STRING"
                    THEN
                        <<<<"iso_c_binding", "c_char">>, <<"mpi_f08_types", "MPI_MAX_ERROR_STRING">>>>
                    ELSE
                        IF self.count_param = "MPI_MAX_PROCESSOR_NAME"
                        THEN
                            <<<<"iso_c_binding", "c_char">>, <<"mpi_f08_types", "MPI_MAX_PROCESSOR_NAME">>>>
                        ELSE
                            IF self.count_param = "MPI_MAX_LIBRARY_VERSION_STRING"
                            THEN
                                <<<<"iso_c_binding", "c_char">>, <<"mpi_f08_types", "MPI_MAX_LIBRARY_VERSION_STRING">>>>
                            ELSE
                                IF self.count_param = "MPI_STATUS_SIZE"
                                THEN
                                    <<<<"iso_c_binding", "c_char">>, <<"mpi_f08_types", "MPI_STATUS_SIZE">>>>
                                ELSE
                                    <<<<"iso_c_binding", "c_char">>>>
      [] m = "declare_cbinding_fortran" ->
            "CHARACTER(KIND=C_CHAR), INTENT(OUT) :: " \o str(self.name) \o "(*)"
      [] m = "c_parameter" ->
            "char *" \o str(self.name)
      [] OTHER -> FortranType(m, self)

\* @FortranType.add('MESSAGE_OUT') class MessageOut(FortranType), lines 1268-1285
MessageOut(m, self) ==
    CASE m = "declare" ->
            IF self.gen_f90 = FALSE
            THEN
                "TYPE(MPI_Message), INTENT(OUT) :: " \o str(self.name)
            ELSE
                "INTEGER, INTENT(OUT) :: " \o str(self.name)
      [] m = "use" ->
            IF self.gen_f90 = FALSE
            THEN
                <<<<"mpi_f08_types", "MPI_Message">>>>
            ELSE
                <<>>
      [] m = "c_parameter" ->
            "MPI_Fint *" \o str(self.name)
      [] OTHER -> FortranType(m, self)

\* @FortranType.add('MESSAGE_INOUT') class MessageInOut(MessageOut), lines 1288-1296
MessageInOut(m, self) ==
    CASE m = "declare" ->
            IF self.gen_f90 = FALSE
            THEN
                "TYPE(MPI_Message), INTENT(INOUT) :: " \o str(self.name)
            ELSE
                "INTEGER, INTENT(INOUT) :: " \o str(self.name)
      [] OTHER -> MessageOut(m, self)

\* @FortranType.add('ERRHANDLER') class ErrhandlerType(FortranType), lines 1299-1323
ErrhandlerType(m, self) ==
    CASE m = "declare" ->
            IF self.gen_f90 = FALSE
            THEN
                "TYPE(MPI_Errhandler), INTENT(IN) :: " \o str(self.name)
            ELSE
                "INTEGER, INTENT(IN) :: " \o str(self.name)
      [] m = "declare_cbinding_fortran" ->
            "INTEGER, INTENT(IN) :: " \o str(self.name)
      [] m = "argument" ->
            IF self.gen_f90 = FALSE
            THEN
                str(self.name) \o "%MPI_VAL"
            ELSE
                str(self.name)
      [] m = "use" ->
            IF self.gen_f90 = FALSE
            THEN
                <<<<"mpi_f08_types", "MPI_Errhandler">>>>
            ELSE
                <<>>
      [] m = "c_parameter" ->
            "MPI_Fint *" \o str(self.name)
      [] OTHER -> FortranType(m, self)

\* @FortranType.add('ERRHANDLER_OUT') class ErrhandlerOutType(ErrhandlerType), lines 1325-1334
ErrhandlerOutType(m, self) ==
    CASE m = "declare" ->
            IF self.gen_f90 = FALSE
            THEN
                "TYPE(MPI_Errhandler), INTENT(OUT) :: " \o str(self.name)
            ELSE
                "INTEGER, INTENT(OUT) :: " \o str(self.name)
      [] m = "declare_cbinding_fortran" ->
            "INTEGER, INTENT(OUT) :: " \o str(self.name)
      [] OTHER -> ErrhandlerType(m, self)

\* @FortranType.add('ERRHANDLER_INOUT') class ErrhandlerOutType(ErrhandlerOutType), lines 1336-1345
\* (this class statement rebinds the name ErrhandlerOutType; the class it was bound to before stays a class of its own)
ErrhandlerOutType_2(m, self) ==
    CASE m = "declare" ->
            IF self.gen_f90 = FALSE
            THEN
                "TYPE(MPI_Errhandler), INTENT(INOUT) :: " \o str(self.name)
            ELSE
                "INTEGER, INTENT(INOUT) :: " \o str(self.name)
      [] m = "declare_cbinding_fortran" ->
            "INTEGER, INTENT(INOUT) :: " \o str(self.name)
      [] OTHER -> ErrhandlerOutType(m, self)

\* @FortranType.add('COMM_ERRHANDLER_FN') class CommErrhandlerFnType(FortranType), lines 1347-1377
CommErrhandlerFnType(m, self) ==
    CASE m = "declare" ->
            IF self.gen_f90 = FALSE
            THEN
                "PROCEDURE(MPI_Comm_copy_errhandler_function) :: " \o str(self.name)
            ELSE
                "EXTERNAL " \o str(self.name)
      [] m = "declare_cbinding_fortran" ->
            "INTEGER, INTENT(IN) :: " \o str(self.name)
      [] m = "argument" ->
            IF self.gen_f90 = FALSE
            THEN
                str(self.name) \o "%MPI_VAL"
            ELSE
                str(self.name)
      [] m = "use" ->
            IF self.gen_f90 = FALSE
            THEN
                <<<<"mpi_f08_interfaces_callbacks", "MPI_Comm_errhandler_function">>, <<"iso_c_binding", "c_funloc">>, <<"iso_c_binding", "c_funptr">>>>
            ELSE
                <<>>
      [] m = "declare_tmp" ->
            "type(c_funptr) :: " \o str(tmp_name(self))
      [] m = "c_parameter" ->
            "type(c_funptr) :: " \o str(tmp_name(self))
      [] m = "pre_c_call" ->
            str(tmp_name(self)) \o " = c_funloc(" \o str(self.name) \o ")"
      [] OTHER -> FortranType(m, self)

\* @FortranType.add('COMM_COPY_ATTR_FN') class CommCopyAttrFnType(FortranType), lines 1379-1406
CommCopyAttrFnType(m, self) ==
    CASE m = "declare" ->
            IF self.gen_f90 = FALSE
            THEN
                "PROCEDURE(MPI_Comm_copy_attr_function) :: " \o str(self.name)
            ELSE
                "EXTERNAL " \o str(self.name)
      [] m = "declare_cbinding_fortran" ->
            "type(c_funptr) :: " \o str(self.name)
      [] m = "argument" ->
            str(tmp_name(self))
      [] m = "declare_tmp" ->
            "type(c_funptr)::" \o str(tmp_name(self))
      [] m = "use" ->
            IF self.gen_f90 = FALSE
            THEN
                <<<<"mpi_f08_interfaces_callbacks", "MPI_Comm_copy_attr_function">>, <<"iso_c_binding", "c_funloc">>, <<"iso_c_binding", "c_funptr">>>>
            ELSE
                <<>>
      [] m = "c_parameter" ->
            "ompi_aint_copy_attr_function " \o str(self.name)
      [] m = "pre_c_call" ->
            str(tmp_name(self)) \o " = c_funloc(" \o str(self.name) \o ")"
      [] OTHER -> FortranType(m, self)

\* @FortranType.add('TYPE_COPY_ATTR_FN') class TypeCopyAttrFnType(CommCopyAttrFnType), lines 1408-1420
TypeCopyAttrFnType(m, self) ==
    CASE m = "declare" ->
            IF self.gen_f90 = FALSE
            THEN
                "PROCEDURE(MPI_Type_copy_attr_function) :: " \o str(self.name)
            ELSE
                "EXTERNAL " \o str(self.name)
      [] m = "use" ->
            IF self.gen_f90 = FALSE
            THEN
                <<<<"mpi_f08_interfaces_callbacks", "MPI_Type_copy_attr_function">>, <<"iso_c_binding", "c_funloc">>, <<"iso_c_binding", "c_funptr">>>>
            ELSE
                <<>>
      [] OTHER -> CommCopyAttrFnType(m, self)

\* @FortranType.add('WIN_COPY_ATTR_FN') class WinCopyAttrFnType(CommCopyAttrFnType), lines 1422-1434
WinCopyAttrFnType(m, self) ==
    CASE m = "declare" ->
            IF self.gen_f90 = FALSE
            THEN
                "PROCEDURE(MPI_Win_copy_attr_function) :: " \o str(self.name)
            ELSE
                "EXTERNAL " \o str(self.name)
      [] m = "use" ->
            IF self.gen_f90 = FALSE
            THEN
                <<<<"mpi_f08_interfaces_callbacks", "MPI_Win_copy_attr_function">>, <<"iso_c_binding", "c_funloc">>, <<"iso_c_binding", "c_funptr">>>>
            ELSE
                <<>>
      [] OTHER -> CommCopyAttrFnType(m, self)

\* @FortranType.add('COMM_DELETE_ATTR_FN') class CommDeleteAttrFnType(FortranType), lines 1436-1463
CommDeleteAttrFnType(m, self) ==
    CASE m = "declare" ->
            IF self.gen_f90 = FALSE
            THEN
                "PROCEDURE(MPI_Comm_delete_attr_function) :: " \o str(self.name)
            ELSE
                "EXTERNAL " \o str(self.name)
      [] m = "declare_cbinding_fortran" ->
            "type(c_funptr) :: " \o str(self.name)
      [] m = "argument" ->
            str(tmp_name(self))
      [] m = "declare_tmp" ->
            "type(c_funptr) :: " \o str(tmp_name(self))
      [] m = "use" ->
            IF self.gen_f90 = FALSE
            THEN
                <<<<"mpi_f08_interfaces_callbacks", "MPI_Comm_delete_attr_function">>, <<"iso_c_binding", "c_funloc">>, <<"iso_c_binding", "c_funptr">>>>
            ELSE
                <<>>
      [] m = "c_parameter" ->
            "ompi_aint_delete_attr_function " \o str(self.name)
      [] m = "pre_c_call" ->
            str(tmp_name(self)) \o " = c_funloc(" \o str(self.name) \o ")"
      [] OTHER -> FortranType(m, self)

\* @FortranType.add('TYPE_DELETE_ATTR_FN') class TypeDeleteAttrFnType(CommDeleteAttrFnType), lines 1465-1477
TypeDeleteAttrFnType(m, self) ==
    CASE m = "declare" ->
            IF self.gen_f90 = FALSE
            THEN
                "PROCEDURE(MPI_Type_delete_attr_function) :: " \o str(self.name)
            ELSE
                "EXTERNAL " \o str(self.name)
      [] m = "use" ->
            IF self.gen_f90 = FALSE
            THEN
                <<<<"mpi_f08_interfaces_callbacks", "MPI_Type_delete_attr_function">>, <<"iso_c_binding", "c_funloc">>, <<"iso_c_binding", "c_funptr">>>>
            ELSE
                <<>>
      [] OTHER -> CommDeleteAttrFnType(m, self)

\* @FortranType.add('WIN_DELETE_ATTR_FN') class WinDeleteAttrFnType(CommDeleteAttrFnType), lines 1479-1491
WinDeleteAttrFnType(m, self) ==
    CASE m = "declare" ->
            IF self.gen_f90 = FALSE
            THEN
                "PROCEDURE(MPI_Win_delete_attr_function) :: " \o str(self.name)
            ELSE
                "EXTERNAL " \o str(self.name)
      [] m = "use" ->
            IF self.gen_f90 = FALSE
            THEN
                <<<<"mpi_f08_interfaces_callbacks", "MPI_Win_delete_attr_function">>, <<"iso_c_binding", "c_funloc">>, <<"iso_c_binding", "c_funptr">>>>
            ELSE
                <<>>
      [] OTHER -> CommDeleteAttrFnType(m, self)

\* @FortranType.add('COMM_ERRHANDLER_FN') class CommErrhandlerFnType(FortranType), lines 1494-1521
\* (this class statement rebinds the name CommErrhandlerFnType; the class it was bound to before stays a class of its own)
CommErrhandlerFnType_2(m, self) ==
    CASE m = "declare" ->
            IF self.gen_f90 = FALSE
            THEN
                "PROCEDURE(MPI_Comm_errhandler_function) :: " \o str(self.name)
            ELSE
                "EXTERNAL " \o str(self.name)
      [] m = "declare_cbinding_fortran" ->
            "type(c_funptr) :: " \o str(self.name)
      [] m = "argument" ->
            str(tmp_name(self))
      [] m = "declare_tmp" ->
            "type(c_funptr) :: " \o str(tmp_name(self))
      [] m = "use" ->
            IF self.gen_f90 = FALSE
            THEN
                <<<<"mpi_f08_interfaces_callbacks", "MPI_Comm_errhandler_function">>, <<"iso_c_binding", "c_funloc">>, <<"iso_c_binding", "c_funptr">>>>
            ELSE
                <<>>
      [] m = "c_parameter" ->
            "ompi_errhandler_fortran_handler_fn_t " \o str(self.name)
      [] m = "pre_c_call" ->
            str(tmp_name(self)) \o " = c_funloc(" \o str(self.name) \o ")"
      [] OTHER -> FortranType(m, self)

\* @FortranType.add('FILE_ERRHANDLER_FN') class FileErrhandlerFnType(CommErrhandlerFnType), lines 1524-1536
FileErrhandlerFnType(m, self) ==
    CASE m = "declare" ->
            IF self.gen_f90 = FALSE
            THEN
                "PROCEDURE(MPI_File_errhandler_function) :: " \o str(self.name)
            ELSE
                "EXTERNAL " \o str(self.name)
      [] m = "use" ->
            IF self.gen_f90 = FALSE
            THEN
                <<<<"mpi_f08_interfaces_callbacks", "MPI_File_errhandler_function">>, <<"iso_c_binding", "c_funloc">>, <<"iso_c_binding", "c_funptr">>>>
            ELSE
                <<>>
      [] OTHER -> CommErrhandlerFnType_2(m, self)

\* @FortranType.add('SESSION_ERRHANDLER_FN') class SessionErrhandlerFnType(CommErrhandlerFnType), lines 1538-1547
SessionErrhandlerFnType(m, self) ==
    CASE m = "declare" ->
            IF self.gen_f90 = FALSE
            THEN
                "PROCEDURE(MPI_Session_errhandler_function) :: " \o str(self.name)
            ELSE
                "EXTERNAL " \o str(self.name)
      [] m = "use" ->
            <<<<"mpi_f08_interfaces_callbacks", "MPI_Session_errhandler_function">>, <<"iso_c_binding", "c_funloc">>, <<"iso_c_binding", "c_funptr">>>>
      [] OTHER -> CommErrhandlerFnType_2(m, self)

\* @FortranType.add('WIN_ERRHANDLER_FN') class WinErrhandlerFnType(CommErrhandlerFnType), lines 1549-1561
WinErrhandlerFnType(m, self) ==
    CASE m = "declare" ->
            IF self.gen_f90 = FALSE
            THEN
                "PROCEDURE(MPI_Win_errhandler_function) :: " \o str(self.name)
            ELSE
                "EXTERNAL " \o str(self.name)
      [] m = "use" ->
            IF self.gen_f90 = FALSE
            THEN
                <<<<"mpi_f08_interfaces_callbacks", "MPI_Win_errhandler_function">>, <<"iso_c_binding", "c_funloc">>, <<"iso_c_binding", "c_funptr">>>>
            ELSE
                <<>>
      [] OTHER -> CommErrhandlerFnType_2(m, self)

\* @FortranType.add('DATAREP_CONVERSION_FN') class DataRepConversionFnType(FortranType), lines 1563-1590
DataRepConversionFnType(m, self) ==
    CASE m = "declare" ->
            IF self.gen_f90 = FALSE
            THEN
                "PROCEDURE(MPI_Datarep_conversion_function) :: " \o str(self.name)
            ELSE
                "EXTERNAL " \o str(self.name)
      [] m = "declare_cbinding_fortran" ->
            "type(c_funptr) :: " \o str(self.name)
      [] m = "argument" ->
            str(tmp_name(self))
      [] m = "declare_tmp" ->
            "type(c_funptr) :: " \o str(tmp_name(self))
      [] m = "use" ->
            IF self.gen_f90 = FALSE
            THEN
                <<<<"mpi_f08_interfaces_callbacks", "MPI_Datarep_conversion_function">>, <<"iso_c_binding", "c_funloc">>, <<"iso_c_binding", "c_funptr">>>>
            ELSE
                <<>>
      [] m = "c_parameter" ->
            "ompi_mpi2_fortran_datarep_conversion_fn_t  " \o str(self.name)
      [] m = "pre_c_call" ->
            str(tmp_name(self)) \o " = c_funloc(" \o str(self.name) \o ")"
      [] OTHER -> FortranType(m, self)

\* @FortranType.add('DATAREP_EXTENT_FN') class DataRepExtentFnType(DataRepConversionFnType), lines 1592-1607
DataRepExtentFnType(m, self) ==
    CASE m = "declare" ->
            IF self.gen_f90 = FALSE
            THEN
                "PROCEDURE(MPI_Datarep_extent_function) :: " \o str(self.name)
            ELSE
                "EXTERNAL " \o str(self.name)
      [] m = "use" ->
            IF self.gen_f90 = FALSE
            THEN
                <<<<"mpi_f08_interfaces_callbacks", "MPI_Datarep_extent_function">>, <<"iso_c_binding", "c_funloc">>, <<"iso_c_binding", "c_funptr">>>>
            ELSE
                <<>>
      [] m = "c_parameter" ->
            "ompi_mpi2_fortran_datarep_extent_fn_t  " \o str(self.name)
      [] OTHER -> DataRepConversionFnType(m, self)

\* The class statements of the module body in source order: the type name
\* each decorator registers and the class object it registers.
ModuleBody ==
  <<
    <<"BUFFER", "BufferType">>, <<"BUFFER_ASYNC", "BufferAsyncType">>,
    <<"BUFFER_OUT", "BufferOutType">>, <<"BUFFER_ASYNC_OUT", "BufferAsyncOutType">>,
    <<"VBUFFER", "VBufferType">>, <<"VBUFFER_OUT", "VBufferType_2">>,
    <<"WBUFFER", "WBufferType">>, <<"WBUFFER_OUT", "WBufferType_2">>,
    <<"C_PTR_OUT", "CptrType">>, <<"COUNT", "CountType">>,
    <<"COUNT_INOUT", "CountTypeInOut">>, <<"COUNT_OUT", "CountTypeInOut_2">>,
    <<"PARTITIONED_COUNT", "PartitionedCountType">>, <<"DATATYPE", "DatatypeType">>,
    <<"DATATYPE_OUT", "DatatypeTypeOut">>, <<"DATATYPE_INOUT", "DatatypeTypeInOut">>,
    <<"DATATYPE_ARRAY", "DatatypeArrayType">>, <<"INT", "IntType">>,
    <<"INT_OUT", "IntOutType">>, <<"INT_INOUT", "IntOutType_2">>,
    <<"RANK", "RankType">>, <<"RANK_OUT", "RankType_2">>,
    <<"TAG", "TagType">>, <<"INDEX_OUT", "IndexOutType">>,
    <<"LOGICAL", "LogicalType">>, <<"LOGICAL_ARRAY", "LogicalArrayType">>,
    <<"LOGICAL_OUT", "LogicalOutType">>, <<"LOGICAL_ARRAY_OUT", "LogicalArrayType_2">>,
    <<"COMM", "CommType">>, <<"COMM_OUT", "CommOutType">>,
    <<"COMM_INOUT", "CommInOutType">>, <<"GROUP", "GroupType">>,
    <<"GROUP_OUT", "GroupOutType">>, <<"GROUP_INOUT", "GroupInOutType">>,
    <<"SESSION", "SessionType">>, <<"SESSION_OUT", "SessionOutType">>,
    <<"SESSION_INOUT", "SessionInOutType">>, <<"STATUS", "StatusType">>,
    <<"STATUS_OUT", "StatusOutType">>, <<"STATUS_INOUT", "StatusInOutType">>,
    <<"REQUEST", "RequestType">>, <<"REQUEST_OUT", "RequestTypeOut">>,
    <<"REQUEST_INOUT", "RequestTypeInOut">>, <<"REQUEST_ARRAY", "RequestArrayType">>,
    <<"REQUEST_ARRAY_INOUT", "RequestArrayTypeInOut">>, <<"STATUS_ARRAY", "StatusArrayType">>,
    <<"INT_ARRAY", "IntArray">>, <<"INT_ARRAY_OUT", "IntArrayOut">>,
    <<"INT_ARRAY_INOUT", "IntArrayInOut">>, <<"COUNT_ARRAY", "CountArray">>,
    <<"AINT_COUNT_ARRAY", "CountArray_2">>, <<"AINT", "Aint">>,
    <<"AINT_OUT", "AintOut">>, <<"AINT_COUNT", "AintCountTypeIn">>,
    <<"AINT_COUNT_INOUT", "AintCountTypeInOut">>, <<"AINT_COUNT_OUT", "AintCountTypeOut">>,
    <<"AINT_ARRAY", "AintArrayType">>, <<"DISP", "Disp">>,
    <<"DISP_OUT", "DispOut">>, <<"DISP_ARRAY", "DispArray">>,
    <<"OP", "Op">>, <<"OP_INOUT", "OpInOut">>,
    <<"WIN", "Win">>, <<"WIN_OUT", "WinOut">>,
    <<"WIN_INOUT", "WinInOut">>, <<"FILE", "File">>,
    <<"FILE_OUT", "FileOut">>, <<"INFO", "Info">>,
    <<"INFO_OUT", "InfoOut">>, <<"INFO_INOUT", "InfoInOut">>,
    <<"OFFSET", "Offset">>, <<"OFFSET_OUT", "OffsetOut">>,
    <<"CHAR_ARRAY", "CharArray">>, <<"CHAR_ARRAY_OUT", "CharArrayOut">>,
    <<"MESSAGE_OUT", "MessageOut">>, <<"MESSAGE_INOUT", "MessageInOut">>,
    <<"ERRHANDLER", "ErrhandlerType">>, <<"ERRHANDLER_OUT", "ErrhandlerOutType">>,
    <<"ERRHANDLER_INOUT", "ErrhandlerOutType_2">>, <<"COMM_ERRHANDLER_FN", "CommErrhandlerFnType">>,
    <<"COMM_COPY_ATTR_FN", "CommCopyAttrFnType">>, <<"TYPE_COPY_ATTR_FN", "TypeCopyAttrFnType">>,
    <<"WIN_COPY_ATTR_FN", "WinCopyAttrFnType">>, <<"COMM_DELETE_ATTR_FN", "CommDeleteAttrFnType">>,
    <<"TYPE_DELETE_ATTR_FN", "TypeDeleteAttrFnType">>, <<"WIN_DELETE_ATTR_FN", "WinDeleteAttrFnType">>,
    <<"COMM_ERRHANDLER_FN", "CommErrhandlerFnType_2">>, <<"FILE_ERRHANDLER_FN", "FileErrhandlerFnType">>,
    <<"SESSION_ERRHANDLER_FN", "SessionErrhandlerFnType">>, <<"WIN_ERRHANDLER_FN", "WinErrhandlerFnType">>,
    <<"DATAREP_CONVERSION_FN", "DataRepConversionFnType">>, <<"DATAREP_EXTENT_FN", "DataRepExtentFnType">>
  >>

\* self.m() on an instance of a registered class
call(self, m) ==
    CASE self.cls = "BufferType" -> BufferType(m, self)
      [] self.cls = "BufferAsyncType" -> BufferAsyncType(m, self)
      [] self.cls = "BufferOutType" -> BufferOutType(m, self)
      [] self.cls = "BufferAsyncOutType" -> BufferAsyncOutType(m, self)
      [] self.cls = "VBufferType" -> VBufferType(m, self)
      [] self.cls = "VBufferType_2" -> VBufferType_2(m, self)
      [] self.cls = "WBufferType" -> WBufferType(m, self)
      [] self.cls = "WBufferType_2" -> WBufferType_2(m, self)
      [] self.cls = "CptrType" -> CptrType(m, self)
      [] self.cls = "CountType" -> CountType(m, self)
      [] self.cls = "CountTypeInOut" -> CountTypeInOut(m, self)
      [] self.cls = "CountTypeInOut_2" -> CountTypeInOut_2(m, self)
      [] self.cls = "PartitionedCountType" -> PartitionedCountType(m, self)
      [] self.cls = "DatatypeType" -> DatatypeType(m, self)
      [] self.cls = "DatatypeTypeOut" -> DatatypeTypeOut(m, self)
      [] self.cls = "DatatypeTypeInOut" -> DatatypeTypeInOut(m, self)
      [] self.cls = "DatatypeArrayType" -> DatatypeArrayType(m, self)
      [] self.cls = "IntType" -> IntType(m, self)
      [] self.cls = "IntOutType" -> IntOutType(m, self)
      [] self.cls = "IntOutType_2" -> IntOutType_2(m, self)
      [] self.cls = "RankType" -> RankType(m, self)
      [] self.cls = "RankType_2" -> RankType_2(m, self)
      [] self.cls = "TagType" -> TagType(m, self)
      [] self.cls = "IndexOutType" -> IndexOutType(m, self)
      [] self.cls = "LogicalType" -> LogicalType(m, self)
      [] self.cls = "LogicalArrayType" -> LogicalArrayType(m, self)
      [] self.cls = "LogicalOutType" -> LogicalOutType(m, self)
      [] self.cls = "LogicalArrayType_2" -> LogicalArrayType_2(m, self)
      [] self.cls = "CommType" -> CommType(m, self)
      [] self.cls = "CommOutType" -> CommOutType(m, self)
      [] self.cls = "CommInOutType" -> CommInOutType(m, self)
      [] self.cls = "GroupType" -> GroupType(m, self)
      [] self.cls = "GroupOutType" -> GroupOutType(m, self)
      [] self.cls = "GroupInOutType" -> GroupInOutType(m, self)
      [] self.cls = "SessionType" -> SessionType(m, self)
      [] self.cls = "SessionOutType" -> SessionOutType(m, self)
      [] self.cls = "SessionInOutType" -> SessionInOutType(m, self)
      [] self.cls = "StatusType" -> StatusType(m, self)
      [] self.cls = "StatusOutType" -> StatusOutType(m, self)
      [] self.cls = "StatusInOutType" -> StatusInOutType(m, self)
      [] self.cls = "RequestType" -> RequestType(m, self)
      [] self.cls = "RequestTypeOut" -> RequestTypeOut(m, self)
      [] self.cls = "RequestTypeInOut" -> RequestTypeInOut(m, self)
      [] self.cls = "RequestArrayType" -> RequestArrayType(m, self)
      [] self.cls = "RequestArrayTypeInOut" -> RequestArrayTypeInOut(m, self)
      [] self.cls = "StatusArrayType" -> StatusArrayType(m, self)
      [] self.cls = "IntArray" -> IntArray(m, self)
      [] self.cls = "IntArrayOut" -> IntArrayOut(m, self)
      [] self.cls = "IntArrayInOut" -> IntArrayInOut(m, self)
      [] self.cls = "CountArray" -> CountArray(m, self)
      [] self.cls = "CountArray_2" -> CountArray_2(m, self)
      [] self.cls = "Aint" -> Aint(m, self)
      [] self.cls = "AintOut" -> AintOut(m, self)
      [] self.cls = "AintCountTypeIn" -> AintCountTypeIn(m, self)
      [] self.cls = "AintCountTypeInOut" -> AintCountTypeInOut(m, self)
      [] self.cls = "AintCountTypeOut" -> AintCountTypeOut(m, self)
      [] self.cls = "AintArrayType" -> AintArrayType(m, self)
      [] self.cls = "Disp" -> Disp(m, self)
      [] self.cls = "DispOut" -> DispOut(m, self)
      [] self.cls = "DispArray" -> DispArray(m, self)
      [] self.cls = "Op" -> Op(m, self)
      [] self.cls = "OpInOut" -> OpInOut(m, self)
      [] self.cls = "Win" -> Win(m, self)
      [] self.cls = "WinOut" -> WinOut(m, self)
      [] self.cls = "WinInOut" -> WinInOut(m, self)
      [] self.cls = "File" -> File(m, self)
      [] self.cls = "FileOut" -> FileOut(m, self)
      [] self.cls = "Info" -> Info(m, self)
      [] self.cls = "InfoOut" -> InfoOut(m, self)
      [] self.cls = "InfoInOut" -> InfoInOut(m, self)
      [] self.cls = "Offset" -> Offset(m, self)
      [] self.cls = "OffsetOut" -> OffsetOut(m, self)
      [] self.cls = "CharArray" -> CharArray(m, self)
      [] self.cls = "CharArrayOut" -> CharArrayOut(m, self)
      [] self.cls = "MessageOut" -> MessageOut(m, self)
      [] self.cls = "MessageInOut" -> MessageInOut(m, self)
      [] self.cls = "ErrhandlerType" -> ErrhandlerType(m, self)
      [] self.cls = "ErrhandlerOutType" -> ErrhandlerOutType(m, self)
      [] self.cls = "ErrhandlerOutType_2" -> ErrhandlerOutType_2(m, self)
      [] self.cls = "CommErrhandlerFnType" -> CommErrhandlerFnType(m, self)
      [] self.cls = "CommCopyAttrFnType" -> CommCopyAttrFnType(m, self)
      [] self.cls = "TypeCopyAttrFnType" -> TypeCopyAttrFnType(m, self)
      [] self.cls = "WinCopyAttrFnType" -> WinCopyAttrFnType(m, self)
      [] self.cls = "CommDeleteAttrFnType" -> CommDeleteAttrFnType(m, self)
      [] self.cls = "TypeDeleteAttrFnType" -> TypeDeleteAttrFnType(m, self)
      [] self.cls = "WinDeleteAttrFnType" -> WinDeleteAttrFnType(m, self)
      [] self.cls = "CommErrhandlerFnType_2" -> CommErrhandlerFnType_2(m, self)
      [] self.cls = "FileErrhandlerFnType" -> FileErrhandlerFnType(m, self)
      [] self.cls = "SessionErrhandlerFnType" -> SessionErrhandlerFnType(m, self)
      [] self.cls = "WinErrhandlerFnType" -> WinErrhandlerFnType(m, self)
      [] self.cls = "DataRepConversionFnType" -> DataRepConversionFnType(m, self)
      [] self.cls = "DataRepExtentFnType" -> DataRepExtentFnType(m, self)

----------------------------------------------------------------------------
\* The registry (FortranType.TYPES and its class methods), lines 31-48.

\* TYPES = {}
EmptyDict == <<>>

\* d[key] = value on a dict: key maps to value, every other key is kept
setitem(d, key, value) == (key :> value) @@ d

\* A registration that keeps the class a type name already has.
wrapper_setdefault(types, type_name, class_) ==
    IF type_name \in DOMAIN types THEN types ELSE setitem(types, type_name, class_)

\* wrapper(class_) of the decorator add(type_name): cls.TYPES[type_name] = class_
wrapper(types, type_name, class_) == setitem(types, type_name, class_)

\* Outcome of a call: what it returned, or the exception it raised.
NoCall == [op |-> "", arg |-> None, self |-> 0, val |-> None, exc |-> None]
Returned(op, arg, self, val) ==
    [op |-> op, arg |-> arg, self |-> self, val |-> val, exc |-> None]
Raised(op, arg, self, exc) ==
    [op |-> op, arg |-> arg, self |-> self, val |-> None, exc |-> exc]

\* The Fortran variables of a wrapper that has not been entered.
NoStore == [pc |-> "none", x |-> <<>>, c |-> <<>>, from |-> 0]

\* The next decorated class statement of the module body runs:
\* @FortranType.add(tag) registers the class object just created.
class_statement ==
    /\ loaded < Len(ModuleBody)
    /\ TYPES' = wrapper(TYPES, ModuleBody[loaded + 1][1], ModuleBody[loaded + 1][2])
    /\ registered' = Append(registered, ModuleBody[loaded + 1])
    /\ loaded' = loaded + 1
    /\ UNCHANGED <<objs, log, ret, env>>

\* FortranType.add(type_name)(class_), called once the module is imported
add(type_name, class_) ==
    /\ loaded = Len(ModuleBody)
    /\ Len(registered) < Len(ModuleBody) + MaxAdds
    /\ TYPES' = wrapper(TYPES, type_name, class_)
    /\ registered' = Append(registered, <<type_name, class_>>)
    /\ ret' = Returned("add", type_name, 0, class_)
    /\ UNCHANGED <<loaded, objs, log, env>>

\* A lookup that answers None for a type name that is not registered, as
\* dict.get does, instead of raising.
get_or_none(type_name) ==
    /\ loaded = Len(ModuleBody)
    /\ ret' = IF type_name \in DOMAIN TYPES
              THEN Returned("get", type_name, 0, TYPES[type_name])
              ELSE Returned("get", type_name, 0, None)
    /\ UNCHANGED <<TYPES, loaded, registered, objs, log, env>>

\* FortranType.get(type_name): cls.TYPES[type_name], KeyError when absent
get(type_name) ==
    /\ loaded = Len(ModuleBody)
    /\ ret' = IF type_name \in DOMAIN TYPES
              THEN Returned("get", type_name, 0, TYPES[type_name])
              ELSE Raised("get", type_name, 0, "KeyError")
    /\ UNCHANGED <<TYPES, loaded, registered, objs, log, env>>

\* A construct that takes the class out of TYPES, as dict.pop does.
construct_popping(type_name, kwargs) ==
    /\ loaded = Len(ModuleBody)
    /\ IF type_name \in DOMAIN TYPES
       THEN /\ objs' = Append(objs, init(TYPES[type_name], kwargs))
            /\ log' = Append(log, <<>>)
            /\ env' = Append(env, NoStore)
            /\ ret' = Returned("construct", type_name, 0, Len(objs) + 1)
            /\ TYPES' = [t \in DOMAIN TYPES \ {type_name} |-> TYPES[t]]
       ELSE /\ ret' = Raised("construct", type_name, 0, "KeyError")
            /\ UNCHANGED <<objs, log, env, TYPES>>
    /\ UNCHANGED <<loaded, registered>>

\* FortranType.construct(type_name, **kwargs): the lookup raises KeyError
\* before any instance is made; otherwise the class is called with kwargs.
\* The value returned is the new instance, named by its place in objs.
construct(type_name, kwargs) ==
    /\ loaded = Len(ModuleBody)
    /\ IF type_name \in DOMAIN TYPES
       THEN /\ objs' = Append(objs, init(TYPES[type_name], kwargs))
            /\ log' = Append(log, <<>>)
            /\ env' = Append(env, NoStore)
            /\ ret' = Returned("construct", type_name, 0, Len(objs) + 1)
       ELSE /\ ret' = Raised("construct", type_name, 0, "KeyError")
            /\ UNCHANGED <<objs, log, env>>
    /\ UNCHANGED <<TYPES, loaded, registered>>

----------------------------------------------------------------------------
\* The descriptor contract, called on live instance number i.

\* A tmp_counter whose counter is one for all instances, as a class
\* attribute would be.
tmp_counter_shared(i) ==
    /\ objs[i].used_counters < MaxCounters
    /\ LET self == objs[i]
           name == str(self.name) \o "_i_" \o decimal(self.used_counters)
       IN  /\ objs' = [k \in DOMAIN objs |->
                          [objs[k] EXCEPT !.used_counters = self.used_counters + 1]]
           /\ ret' = Returned("tmp_counter", None, i, name)
    /\ UNCHANGED <<TYPES, loaded, registered, env>>

\* A tmp_counter that never advances used_counters.
tmp_counter_stuck(i) ==
    /\ objs[i].used_counters < MaxCounters
    /\ LET self == objs[i]
           name == str(self.name) \o "_i_" \o decimal(self.used_counters)
       IN  /\ objs' = objs
           /\ ret' = Returned("tmp_counter", None, i, name)
    /\ UNCHANGED <<TYPES, loaded, registered, env>>

\* self.tmp_counter(), lines 65-69
tmp_counter(i) ==
    /\ objs[i].used_counters < MaxCounters
    /\ LET self == objs[i]
           name == str(self.name) \o "_i_" \o decimal(self.used_counters)
       IN  /\ objs' = [objs EXCEPT ![i].used_counters = self.used_counters + 1]
           /\ ret' = Returned("tmp_counter", None, i, name)
    /\ UNCHANGED <<TYPES, loaded, registered, env>>

\* A method that only reads the instance and returns a fragment.
Fragment(i, m) ==
    /\ ret' = Returned(m, None, i, call(objs[i], m))
    /\ UNCHANGED <<TYPES, loaded, registered, objs, env>>

interface_predeclare(i)     == Fragment(i, "interface_predeclare")
declare(i)                  == Fragment(i, "declare")
declare_tmp(i)              == Fragment(i, "declare_tmp")
declare_cbinding_fortran(i) == Fragment(i, "declare_cbinding_fortran")
argument(i)                 == Fragment(i, "argument")
use(i)                      == Fragment(i, "use")
include(i)                  == Fragment(i, "include")
post(i)                     == Fragment(i, "post")
pre_c_call(i)               == Fragment(i, "pre_c_call")
c_parameter(i)              == Fragment(i, "c_parameter")

\* The call just made on instance i is appended to its record.
Traced(i) ==
    log' = [log EXCEPT ![i] = Append(@, [op |-> ret'.op, val |-> ret'.val])]

\* The number of calls recorded so far, over all instances.
RECURSIVE Recorded(_)
Recorded(n) == IF n = 0 THEN 0 ELSE Recorded(n - 1) + Len(log[n])

\* The generation pass for one function is over: its descriptors are dropped.
discard ==
    /\ objs # <<>>
    /\ objs' = <<>>
    /\ log' = <<>>
    /\ env' = <<>>
    /\ ret' = NoCall
    /\ UNCHANGED <<TYPES, loaded, registered>>

----------------------------------------------------------------------------
\* What the callers pass.

\* every type name the module registers
Tags == {ModuleBody[n][1] : n \in 1..Len(ModuleBody)}

\* every class the module defines
Classes == {ModuleBody[n][2] : n \in 1..Len(ModuleBody)}

\* a type name the module never registers
Bogus == "BOGUS"

Names == {"comm", "flag"}
CountParams == {None, "n"}

KwArgs ==
    [name : Names, fn_name : {"MPI_Fn"}, bigcount : BOOLEAN,
     count_param : CountParams, gen_f90 : BOOLEAN]

----------------------------------------------------------------------------
\* The module starts to be imported: TYPES = {} has run, no class statement yet.
Init ==
    /\ TYPES = EmptyDict
    /\ loaded = 0
    /\ registered = <<>>
    /\ objs = <<>>
    /\ log = <<>>
    /\ env = <<>>
    /\ ret = NoCall

\* Spec: one parameter at a time. The module is imported; then a caller looks
\* a type name up, constructs the descriptor of one parameter, calls the
\* contract on it and drops it.
Next ==
    \/ class_statement
    \/ objs = <<>> /\ \E t \in Tags \cup {Bogus} : get(t)
    \/ objs = <<>> /\ \E t \in Tags \cup {Bogus}, kw \in KwArgs : construct(t, kw)
    \/ \E i \in DOMAIN objs : interface_predeclare(i) /\ UNCHANGED log
    \/ \E i \in DOMAIN objs : declare(i) /\ UNCHANGED log
    \/ \E i \in DOMAIN objs : declare_tmp(i) /\ UNCHANGED log
    \/ \E i \in DOMAIN objs : declare_cbinding_fortran(i) /\ UNCHANGED log
    \/ \E i \in DOMAIN objs : argument(i) /\ UNCHANGED log
    \/ \E i \in DOMAIN objs : use(i) /\ UNCHANGED log
    \/ \E i \in DOMAIN objs : include(i) /\ UNCHANGED log
    \/ \E i \in DOMAIN objs : pre_c_call(i) /\ UNCHANGED log
    \/ \E i \in DOMAIN objs : post(i) /\ UNCHANGED log
    \/ \E i \in DOMAIN objs : c_parameter(i) /\ UNCHANGED log
    \/ discard

Spec == Init /\ [][Next]_vars

----------------------------------------------------------------------------
\* Reading the last call.

\* the instance the last call was made on
Self == objs[ret.self]

\* the last call was method m, made on an instance of the class registered
\* under one of the type names in tags
Called(m, tags) ==
    /\ ret.op = m
    /\ ret.self \in DOMAIN objs
    /\ \E t \in tags \cap DOMAIN TYPES : TYPES[t] = Self.cls

\* a declaration of default-kind INTEGER
PlainInteger(s) == StartsWith(s, "INTEGER, ") \/ StartsWith(s, "INTEGER :: ")

\* a declaration of an mpi_f08 derived type
Wrapper(s) == Contains(s, "TYPE(MPI_")

\* The handle kinds: communicator, group, session, window, file, info,
\* datatype, operation, request, error handler and message, with their
\* registered OUT, INOUT and array variants.
HandleArrayTags == {"DATATYPE_ARRAY", "REQUEST_ARRAY", "REQUEST_ARRAY_INOUT"}
HandleTags ==
    {"COMM", "COMM_OUT", "COMM_INOUT", "GROUP", "GROUP_OUT", "GROUP_INOUT",
     "SESSION", "SESSION_OUT", "SESSION_INOUT", "WIN", "WIN_OUT", "WIN_INOUT",
     "FILE", "FILE_OUT", "INFO", "INFO_OUT", "INFO_INOUT",
     "DATATYPE", "DATATYPE_OUT", "DATATYPE_INOUT", "OP", "OP_INOUT",
     "REQUEST", "REQUEST_OUT", "REQUEST_INOUT",
     "ERRHANDLER", "ERRHANDLER_OUT", "ERRHANDLER_INOUT",
     "MESSAGE_OUT", "MESSAGE_INOUT"} \cup HandleArrayTags

\* C3: in legacy mode (gen_f90 = True) declare() of every handle kind is a
\* plain INTEGER declaration and never a TYPE(MPI_*) wrapper declaration.
C3_LegacyDeclareIsInteger ==
    (Called("declare", HandleTags) /\ Self.gen_f90)
        => (PlainInteger(ret.val) /\ ~Wrapper(ret.val))

\* C4: declare_cbinding_fortran() of every handle kind is the plain INTEGER
\* declaration in both modes, never a TYPE(MPI_*) wrapper, and is the same
\* text whatever gen_f90 is.
C4_CBindingIsInteger ==
    Called("declare_cbinding_fortran", HandleTags)
        => /\ PlainInteger(ret.val)
           /\ ~Wrapper(ret.val)
           /\ call([Self EXCEPT !.gen_f90 = ~Self.gen_f90],
                   "declare_cbinding_fortran") = ret.val

\* C5: in modern mode (gen_f90 = False) argument() of every handle kind whose
\* declare() is a TYPE(MPI_*) wrapper is the projection of the raw integer
\* field, name%MPI_VAL for a scalar and name(:)%MPI_VAL for a handle array.
C5_ModernArgumentProjects ==
    (/\ Called("argument", HandleTags)
     /\ ~Self.gen_f90
     /\ Wrapper(call(Self, "declare")))
        => ret.val = IF \E t \in HandleArrayTags : TYPES[t] = Self.cls
                     THEN Self.name \o "(:)%MPI_VAL"
                     ELSE Self.name \o "%MPI_VAL"

\* The kinds with a wide and a narrow form.
CountDualTags == {"COUNT", "COUNT_INOUT", "COUNT_OUT", "COUNT_ARRAY"}
DispDualTags == {"DISP", "DISP_OUT", "DISP_ARRAY"}

\* C6: for COUNT, COUNT_INOUT, COUNT_OUT, COUNT_ARRAY, DISP, DISP_OUT and
\* DISP_ARRAY bigcount alone selects the width: with bigcount c_parameter()
\* uses MPI_Count (counts) or MPI_Aint (displacements) and declare() the wide
\* integer KIND; without it c_parameter() uses MPI_Fint and declare() the
\* default INTEGER, whatever gen_f90 and count_param are.
C6_BigcountSelectsWidth ==
    /\ Called("c_parameter", CountDualTags) =>
          ret.val = (IF Self.bigcount THEN "MPI_Count" ELSE "MPI_Fint") \o " *" \o Self.name
    /\ Called("c_parameter", DispDualTags) =>
          ret.val = (IF Self.bigcount THEN "MPI_Aint" ELSE "MPI_Fint") \o " *" \o Self.name
    /\ Called("declare", CountDualTags) =>
          IF Self.bigcount
          THEN StartsWith(ret.val, "INTEGER(KIND=MPI_COUNT_KIND), ")
          ELSE PlainInteger(ret.val) /\ ~Contains(ret.val, "KIND")
    /\ Called("declare", DispDualTags) =>
          IF Self.bigcount
          THEN StartsWith(ret.val, "INTEGER(KIND=MPI_ADDRESS_KIND), ")
          ELSE PlainInteger(ret.val) /\ ~Contains(ret.val, "KIND")

\* C6 happens: a big-count COUNT named comm in legacy mode with a count_param
\* has returned the wide C parameter.
C6_Witness ==
    /\ Called("c_parameter", {"COUNT"})
    /\ Self.bigcount /\ Self.gen_f90 /\ Self.count_param = "n"
    /\ ret.val = "MPI_Count *comm"

\* The logical kinds.
LogicalInTags == {"LOGICAL", "LOGICAL_ARRAY"}
LogicalOutTags == {"LOGICAL_OUT", "LOGICAL_ARRAY_OUT"}
LogicalTags == LogicalInTags \cup LogicalOutTags

\* C7: every logical kind has a non-empty declare_tmp() and passes the
\* temporary as argument(); an IN kind fills the temporary from the parameter
\* in pre_c_call(), an OUT kind assigns the parameter from the temporary in
\* post().
C7_LogicalPairsTmpWithConversion ==
    /\ Called("declare_tmp", LogicalTags) =>
          StartsWith(ret.val, "INTEGER :: " \o tmp_name(Self))
    /\ Called("argument", LogicalTags) => ret.val = tmp_name(Self)
    /\ Called("pre_c_call", LogicalInTags) =>
          ret.val = tmp_name(Self) \o " = merge(1,0," \o Self.name \o ")"
    /\ Called("post", LogicalOutTags) =>
          ret.val = Self.name \o " = " \o tmp_name(Self) \o " /= 0"

\* The type names that name an intent.
OutTags == {t \in Tags : EndsWith(t, "_OUT")}
InOutTags == {t \in Tags : EndsWith(t, "_INOUT")}

\* C14: declare() of every registered type name ending in _OUT declares
\* INTENT(OUT) and neither INTENT(IN) nor INTENT(INOUT); declare() of every
\* type name ending in _INOUT declares INTENT(INOUT) and neither INTENT(IN)
\* nor INTENT(OUT); in both modes, inherited declare() included.
C14_DeclaredIntentIsTagIntent ==
    /\ Called("declare", OutTags) =>
          /\ Contains(ret.val, "INTENT(OUT)")
          /\ ~Contains(ret.val, "INTENT(IN)")
          /\ ~Contains(ret.val, "INTENT(INOUT)")
    /\ Called("declare", InOutTags) =>
          /\ Contains(ret.val, "INTENT(INOUT)")
          /\ ~Contains(ret.val, "INTENT(IN)")
          /\ ~Contains(ret.val, "INTENT(OUT)")

\* C15: in legacy mode (gen_f90 = True) use() returns no module import, for
\* every registered kind and every bigcount and count_param.
C15_LegacyUsesNothing ==
    (Called("use", Tags) /\ Self.gen_f90) => ret.val = <<>>

\* The buffer kinds.
BufferTags ==
    {"BUFFER", "BUFFER_ASYNC", "BUFFER_OUT", "BUFFER_ASYNC_OUT",
     "VBUFFER", "VBUFFER_OUT", "WBUFFER", "WBUFFER_OUT"}

\* C16: interface_predeclare() is a non-empty ignore-TKR directive naming
\* the parameter for every buffer kind and the empty string for every other
\* kind.
C16_PredeclareOnlyForBuffers ==
    /\ Called("interface_predeclare", BufferTags) =>
          /\ ret.val # ""
          /\ Contains(ret.val, "IGNORE_TKR")
          /\ EndsWith(ret.val, Self.name)
    /\ Called("interface_predeclare", Tags \ BufferTags) => ret.val = ""

\* The address, displacement and file-offset kinds.
AddressTags ==
    {"AINT", "AINT_OUT", "AINT_ARRAY", "OFFSET", "OFFSET_OUT",
     "DISP", "DISP_OUT", "DISP_ARRAY"}

\* C17: declare() of every address, displacement and file-offset kind uses
\* MPI_ADDRESS_KIND or MPI_OFFSET_KIND and is never a default-kind INTEGER,
\* whatever bigcount and gen_f90 are.
C17_AddressesAreWide ==
    Called("declare", AddressTags) =>
        /\ Contains(ret.val, "MPI_ADDRESS_KIND") \/ Contains(ret.val, "MPI_OFFSET_KIND")
        /\ ~PlainInteger(ret.val)

\* The address-or-count kinds.
AintCountTags == {"AINT_COUNT", "AINT_COUNT_INOUT", "AINT_COUNT_OUT", "AINT_COUNT_ARRAY"}

\* the kind constant and the C type bigcount selects for an address-or-count
\* kind, and the kind constant it does not select
SelectedKind(self) == IF self.bigcount THEN "MPI_COUNT_KIND" ELSE "MPI_ADDRESS_KIND"
OtherKind(self) == IF self.bigcount THEN "MPI_ADDRESS_KIND" ELSE "MPI_COUNT_KIND"
SelectedCType(self) == IF self.bigcount THEN "MPI_Count" ELSE "MPI_Aint"

CountedTags ==
    {"INT_ARRAY", "INT_ARRAY_OUT", "INT_ARRAY_INOUT", "COUNT_ARRAY",
     "AINT_COUNT_ARRAY", "AINT_ARRAY", "DISP_ARRAY", "REQUEST_ARRAY",
     "REQUEST_ARRAY_INOUT", "LOGICAL_ARRAY", "LOGICAL_ARRAY_OUT", "CHAR_ARRAY_OUT"}

\* declaration s has extent e: an array shape (e) or a character length LEN=e
HasExtent(s, e) == Contains(s, "(" \o e \o ")") \/ Contains(s, "(LEN=" \o e \o ")")

\* C19: for every kind that takes an element count, declare(), declare_tmp()
\* and declare_cbinding_fortran() of a descriptor constructed without
\* count_param have the assumed-size extent '*', those of a descriptor
\* constructed with count_param have exactly that extent, and none embeds
\* the text 'None'.
C19_ExtentFallsBackToAssumedSize ==
    \A m \in {"declare", "declare_tmp", "declare_cbinding_fortran"} :
        (Called(m, CountedTags) /\ ret.val # "") =>
            /\ ~Contains(ret.val, "None")
            /\ IF Self.count_param = None
               THEN HasExtent(ret.val, "*")
               ELSE HasExtent(ret.val, Self.count_param)

\* The callback kinds.
CallbackTags ==
    {"COMM_COPY_ATTR_FN", "TYPE_COPY_ATTR_FN", "WIN_COPY_ATTR_FN",
     "COMM_DELETE_ATTR_FN", "TYPE_DELETE_ATTR_FN", "WIN_DELETE_ATTR_FN",
     "COMM_ERRHANDLER_FN", "FILE_ERRHANDLER_FN", "SESSION_ERRHANDLER_FN",
     "WIN_ERRHANDLER_FN", "DATAREP_CONVERSION_FN", "DATAREP_EXTENT_FN"}

\* C20: for the class TYPES holds for every callback kind, in both modes,
\* declare_tmp() declares tmp_name as type(c_funptr), pre_c_call() is
\* tmp_name = c_funloc(name), argument() is tmp_name and not the procedure
\* name, and declare_cbinding_fortran() declares name as type(c_funptr).
C20_CallbacksPassFunptr ==
    /\ Called("declare_tmp", CallbackTags) =>
          \/ ret.val = "type(c_funptr) :: " \o tmp_name(Self)
          \/ ret.val = "type(c_funptr)::" \o tmp_name(Self)
    /\ Called("pre_c_call", CallbackTags) =>
          ret.val = tmp_name(Self) \o " = c_funloc(" \o Self.name \o ")"
    /\ Called("argument", CallbackTags) =>
          ret.val = tmp_name(Self) /\ ret.val # Self.name
    /\ Called("declare_cbinding_fortran", CallbackTags) =>
          ret.val = "type(c_funptr) :: " \o Self.name

\* C20 happens: a legacy-mode COMM_ERRHANDLER_FN, an instance of the class
\* registered last under that name, has returned its temporary as argument.
C20_Witness ==
    /\ Called("argument", {"COMM_ERRHANDLER_FN"})
    /\ Self.cls = "CommErrhandlerFnType_2"
    /\ Self.gen_f90
    /\ ret.val = "c_comm"


\* C21: the class TYPES holds for CHAR_ARRAY declares name as
\* CHARACTER(LEN=*), INTENT(IN) and passes name//c_null_char; the class it
\* holds for CHAR_ARRAY_OUT declares a CHARACTER, INTENT(OUT) whose LEN is
\* count_param when one was given, passes the bare name, and returns the
\* empty fragment from declare_tmp(), pre_c_call() and post().
C21_StringKinds ==
    /\ Called("declare", {"CHAR_ARRAY"}) =>
          ret.val = "CHARACTER(LEN=*), INTENT(IN) :: " \o Self.name
    /\ Called("argument", {"CHAR_ARRAY"}) =>
          ret.val = Self.name \o "//c_null_char"
    /\ (Called("declare", {"CHAR_ARRAY_OUT"}) /\ Self.count_param # None) =>
          ret.val = "CHARACTER(LEN=" \o Self.count_param
                        \o "), INTENT(OUT) :: " \o Self.name
    /\ Called("declare", {"CHAR_ARRAY_OUT"}) =>
          /\ StartsWith(ret.val, "CHARACTER(LEN=")
          /\ EndsWith(ret.val, "), INTENT(OUT) :: " \o Self.name)
    /\ Called("argument", {"CHAR_ARRAY_OUT"}) =>
          ret.val = Self.name /\ ~Contains(ret.val, "c_null_char")
    /\ \A m \in {"declare_tmp", "pre_c_call", "post"} :
          Called(m, {"CHAR_ARRAY_OUT"}) => ret.val = ""

\* C21 happens: a CHAR_ARRAY descriptor has returned its terminated argument.
C21_Witness ==
    /\ Called("argument", {"CHAR_ARRAY"})
    /\ Self.name = "comm"
    /\ ret.val = "comm//c_null_char"

\* C22: argument() of every handle kind, in either mode, contains the field
\* projection %MPI_VAL exactly when declare() of the same descriptor declares
\* a TYPE(MPI_*) wrapper; in legacy mode it is the bare parameter name.
C22_ProjectionFollowsDeclaration ==
    Called("argument", HandleTags) =>
        /\ Contains(ret.val, "%MPI_VAL") <=> Wrapper(call(Self, "declare"))
        /\ Self.gen_f90 =>
              (ret.val = Self.name /\ ~Contains(ret.val, "%MPI_VAL"))

\* The INTENT attribute a declaration carries, "" when it carries none.
IntentOf(s) ==
    IF Contains(s, "INTENT(INOUT)") THEN "INOUT"
    ELSE IF Contains(s, "INTENT(OUT)") THEN "OUT"
    ELSE IF Contains(s, "INTENT(IN)") THEN "IN"
    ELSE ""

\* C23: for every registered kind and every mode, the declaration
\* declare_cbinding_fortran() returns carries the same INTENT attribute as
\* the one declare() of the same descriptor returns, or both carry none.
C23_CBindingIntentIsDeclaredIntent ==
    Called("declare_cbinding_fortran", Tags) =>
        IntentOf(ret.val) = IntentOf(call(Self, "declare"))

\* The error-handler callback kinds: the one registered twice and the three
\* defined afterwards as subclasses of its class.
ErrhandlerFnTags ==
    {"COMM_ERRHANDLER_FN", "FILE_ERRHANDLER_FN", "SESSION_ERRHANDLER_FN",
     "WIN_ERRHANDLER_FN"}

\* C24: once the module body has run, COMM_ERRHANDLER_FN names the class
\* of the later definition and no type name names the earlier one; for the
\* four error-handler callback kinds argument() is tmp_name and c_parameter()
\* is 'ompi_errhandler_fortran_handler_fn_t ' + name; and no descriptor that
\* construct() returned behaves as the earlier definition does: none has the
\* c_parameter() 'type(c_funptr) :: ' + tmp_name, and none of a callback
\* kind has the argument() name%MPI_VAL.
C24_LaterDefinitionIsInherited ==
    /\ loaded = Len(ModuleBody) =>
          /\ TYPES["COMM_ERRHANDLER_FN"] = "CommErrhandlerFnType_2"
          /\ \A t \in DOMAIN TYPES : TYPES[t] # "CommErrhandlerFnType"
    /\ Called("argument", ErrhandlerFnTags) => ret.val = tmp_name(Self)
    /\ Called("c_parameter", ErrhandlerFnTags) =>
          ret.val = "ompi_errhandler_fortran_handler_fn_t " \o Self.name
    /\ \A i \in DOMAIN objs :
          /\ call(objs[i], "c_parameter")
                # "type(c_funptr) :: " \o tmp_name(objs[i])
          /\ (\E t \in CallbackTags \cap DOMAIN TYPES : TYPES[t] = objs[i].cls)
                => call(objs[i], "argument") # objs[i].name \o "%MPI_VAL"

\* C24 happens: a modern-mode FILE_ERRHANDLER_FN descriptor, whose class
\* defines neither method itself, has returned its C parameter.
C24_Witness ==
    /\ Called("c_parameter", {"FILE_ERRHANDLER_FN"})
    /\ ~Self.gen_f90
    /\ ret.val = "ompi_errhandler_fortran_handler_fn_t comm"

\* The MPI derived types, kind constants and callback interfaces that the
\* declarations of the catalogue name.
MPITypes ==
    {"MPI_Comm", "MPI_Datatype", "MPI_Errhandler", "MPI_File", "MPI_Group",
     "MPI_Info", "MPI_Message", "MPI_Op", "MPI_Request", "MPI_Session",
     "MPI_Status", "MPI_Win"}

MPIConstants ==
    {"MPI_COUNT_KIND", "MPI_ADDRESS_KIND", "MPI_OFFSET_KIND", "MPI_STATUS_SIZE"}

MPIInterfaces ==
    {"MPI_Comm_copy_attr_function", "MPI_Comm_delete_attr_function",
     "MPI_Comm_copy_errhandler_function", "MPI_Comm_errhandler_function", "MPI_Datarep_conversion_function",
     "MPI_Datarep_extent_function", "MPI_File_errhandler_function",
     "MPI_Session_errhandler_function", "MPI_Type_copy_attr_function",
     "MPI_Type_delete_attr_function", "MPI_Win_copy_attr_function",
     "MPI_Win_delete_attr_function", "MPI_Win_errhandler_function"}

\* The names of the three sets above that the declaration s references.
References(s) ==
    {n \in MPITypes : Contains(s, "TYPE(" \o n \o ")")}
        \cup {n \in MPIConstants : Contains(s, n)}
        \cup {n \in MPIInterfaces : Contains(s, "PROCEDURE(" \o n \o ")")}

\* The names a use() list of (module, name) pairs imports.
Imported(uses) == {uses[k][2] : k \in DOMAIN uses}

\* C25: for every registered kind and every combination of bigcount, gen_f90
\* and count_param, each MPI type, kind constant or callback interface that
\* declare() references is listed in use() of the same descriptor, unless
\* its include() is the legacy header 'mpif-config.h'.
C25_ImportsSuffice ==
    Called("declare", Tags) =>
        \/ References(ret.val) \subseteq Imported(call(Self, "use"))
        \/ call(Self, "include") = "mpif-config.h"
----------------------------------------------------------------------------
\* SpecRegistry: the module is imported, then callers register further
\* classes, look type names up and construct descriptors.

\* type names callers register again or anew, and the classes they pass
AddTags == {"COMM", "NEW_KIND"}
AddClasses == {"IntType", "CommType"}

\* type names callers look up
LookupTags == AddTags \cup {"COMM_ERRHANDLER_FN", Bogus}

\* construct() called with the defaults of __init__
DefaultKwArgs ==
    [name : {"comm"}, fn_name : {"MPI_Fn"}, bigcount : {FALSE},
     count_param : {None}, gen_f90 : {FALSE}]

NextRegistry ==
    \/ class_statement
    \/ \E t \in AddTags, c \in AddClasses : add(t, c)
    \/ \E t \in LookupTags : get(t)
    \/ Len(objs) < MaxObjs /\ \E t \in LookupTags, kw \in DefaultKwArgs : construct(t, kw)

SpecRegistry == Init /\ [][NextRegistry]_vars

\* the class passed in the most recent registration of type name t
LastRegistered(t) ==
    LET at == {k \in DOMAIN registered : registered[k][1] = t}
    IN  registered[CHOOSE k \in at : \A j \in at : j <= k][2]

\* every type name registered so far
RegisteredTags == {registered[k][1] : k \in DOMAIN registered}

\* C1: get(tag) and construct(tag, ...) with a tag that is not registered
\* raise KeyError, return no class and no instance, make no descriptor and
\* leave TYPES as it was.
C1_UnknownKindRaises ==
    [][(ret'.op \in {"get", "construct"} /\ ret'.arg \notin DOMAIN TYPES)
          => /\ ret'.exc = "KeyError"
             /\ ret'.val = None
             /\ objs' = objs
             /\ TYPES' = TYPES]_vars

\* C1 happens: with a descriptor alive, construct('BOGUS') has raised.
C1_Witness ==
    /\ ret.op = "construct" /\ ret.arg = Bogus /\ ret.exc = "KeyError"
    /\ objs # <<>>
    /\ Bogus \notin DOMAIN TYPES

\* C10: after any sequence of registrations TYPES maps each registered type
\* name to the class of its most recent registration and nothing else, so
\* registering one name leaves the others as they were; add never raises, and
\* get returns that most recent class.
C10_LastRegistrationWins ==
    /\ DOMAIN TYPES = RegisteredTags
    /\ \A t \in DOMAIN TYPES : TYPES[t] = LastRegistered(t)
    /\ ret.op = "add" => (ret.exc = None /\ TYPES[ret.arg] = ret.val)
    /\ (ret.op = "get" /\ ret.arg \in RegisteredTags)
          => (ret.exc = None /\ ret.val = LastRegistered(ret.arg))

\* C10 happens: a caller has registered COMM again with another class while
\* other names were registered, and get('COMM') has returned the later class.
C10_Witness ==
    /\ ret.op = "get" /\ ret.arg = "COMM" /\ ret.val = "IntType"
    /\ \E j, k \in DOMAIN registered :
          /\ j < k
          /\ registered[j] = <<"COMM", "CommType">>
          /\ registered[k] = <<"COMM", "IntType">>
    /\ TYPES["GROUP"] = "GroupType"

\* C11: get and construct leave TYPES as it was, whether they return or
\* raise, and leave every descriptor constructed before as it was; get makes
\* no descriptor; a construct that returns has made exactly one new instance,
\* of the class TYPES holds for the type name, with used_counters = 0.
C11_LookupsArePure ==
    [][ret'.op \in {"get", "construct"} =>
          /\ TYPES' = TYPES
          /\ Len(objs') >= Len(objs)
          /\ SubSeq(objs', 1, Len(objs)) = objs
          /\ ret'.op = "get" => objs' = objs
          /\ (ret'.op = "get" /\ ret'.exc = None) => ret'.val = TYPES[ret'.arg]
          /\ ret'.exc # None => objs' = objs
          /\ (ret'.op = "construct" /\ ret'.exc = None /\ ret' # ret) =>
                /\ Len(objs') = Len(objs) + 1
                /\ ret'.val = Len(objs')
                /\ objs'[Len(objs')].cls = TYPES[ret'.arg]
                /\ objs'[Len(objs')].used_counters = 0]_vars

\* C11 happens: after a caller registered COMM again, a second descriptor
\* has been constructed from the class get('COMM') then returns.
C11_Witness ==
    /\ ret.op = "construct" /\ ret.arg = "COMM" /\ ret.exc = None
    /\ ret.val = 2 /\ Len(objs) = 2
    /\ TYPES["COMM"] = "IntType"
    /\ objs[2].cls = "IntType"
    /\ objs[1].cls = "CommType"

----------------------------------------------------------------------------
\* SpecMulti: the descriptors of several parameters are alive together and
\* every call made on them is recorded, each with what it returned.

MultiTags == {"COMM", "LOGICAL_ARRAY"}
\* parameter names of one function
MultiNames == {"flag", "flag2"}
MultiKwArgs ==
    [name : MultiNames, fn_name : {"MPI_Fn"}, bigcount : {FALSE},
     count_param : {None}, gen_f90 : {FALSE}]

\* fewer than MaxCalls calls are recorded so far
MayRecord == Recorded(Len(log)) < MaxCalls

NextMulti ==
    \/ class_statement
    \/ \E t \in {"COMM", Bogus} : get(t)
    \/ Len(objs) < MaxObjs /\ \E t \in MultiTags \cup {Bogus}, kw \in MultiKwArgs : construct(t, kw)
    \/ \E i \in DOMAIN objs : MayRecord /\ tmp_counter(i) /\ Traced(i)
    \/ \E i \in DOMAIN objs : MayRecord /\ declare(i) /\ Traced(i)
    \/ \E i \in DOMAIN objs : MayRecord /\ argument(i) /\ Traced(i)

SpecMulti == Init /\ [][NextMulti]_vars

\* what the tmp_counter() calls on instance i returned, oldest first
Issued(i) ==
    LET calls == SelectSeq(log[i], LAMBDA e : e.op = "tmp_counter")
    IN  [k \in DOMAIN calls |-> calls[k].val]

\* C2: on every instance the k-th call of tmp_counter(), k counted from 0,
\* returns name + '_i_' + k; the names returned are pairwise distinct and
\* used_counters is the number of calls made so far.
C2_CounterNames ==
    \A i \in DOMAIN objs :
        /\ objs[i].used_counters = Len(Issued(i))
        /\ \A k \in DOMAIN Issued(i) :
              Issued(i)[k] = objs[i].name \o "_i_" \o decimal(k - 1)
        /\ \A k, h \in DOMAIN Issued(i) : k # h => Issued(i)[k] # Issued(i)[h]

\* C2 happens: tmp_counter() was called twice on the second of two instances
\* of the same name, the first of which was asked once.
C2_Witness ==
    /\ Len(objs) = 2
    /\ objs[1].name = objs[2].name
    /\ Issued(1) = <<"flag_i_0">>
    /\ Issued(2) = <<"flag_i_0", "flag_i_1">>

\* instances i and j were constructed from the same class with the same
\* name, fn_name, bigcount, count_param and gen_f90
SameArguments(i, j) ==
    /\ objs[i].cls = objs[j].cls
    /\ objs[i].name = objs[j].name
    /\ objs[i].fn_name = objs[j].fn_name
    /\ objs[i].bigcount = objs[j].bigcount
    /\ objs[i].count_param = objs[j].count_param
    /\ objs[i].gen_f90 = objs[j].gen_f90

\* the first k calls on instance i and on instance j were the same methods
SameCalls(i, j, k) ==
    /\ k <= Len(log[i]) /\ k <= Len(log[j])
    /\ \A h \in 1..k : log[i][h].op = log[j][h].op

AuxNames(i) ==
    {tmp_name(objs[i]), tmp_name2(objs[i])} \cup {Issued(i)[k] : k \in DOMAIN Issued(i)}

\* C12: for descriptors with pairwise distinct parameter names, tmp_name,
\* tmp_name2 and the tmp_counter() results are pairwise distinct, within one
\* descriptor and across descriptors, and none of them is a parameter name.
C12_AuxiliaryNamesDistinct ==
    \A i, j \in DOMAIN objs :
        /\ Cardinality(AuxNames(i)) = 2 + Len(Issued(i))
        /\ objs[i].name \notin AuxNames(i)
        /\ objs[i].name # objs[j].name =>
              /\ AuxNames(i) \cap AuxNames(j) = {}
              /\ objs[j].name \notin AuxNames(i)

----------------------------------------------------------------------------
\* SpecLogical: the statements generated for logical parameters are run.
\* A wrapper subroutine declares the dummy argument (declare) and the
\* temporary (declare_tmp), runs pre_c_call, calls the C routine with
\* argument, and runs post.  One wrapper hands a logical value to the
\* library, a second wrapper reads it back.

LogicalKwArgs ==
    [name : {"flag"}, fn_name : {"MPI_Fn"}, bigcount : {FALSE},
     count_param : {"n"}, gen_f90 : {FALSE}]

\* the value of a Fortran variable that was never assigned
Undefined == <<>>

\* the LOGICAL values of n elements, and the INTEGER values a temporary of n
\* elements can hold before it is assigned
Logicals(n) == [1..n -> BOOLEAN]
Integers01(n) == [1..n -> {0, 1}]

\* the dummy argument of instance i is declared with this intent
Intent(i, io) == Contains(call(objs[i], "declare"), "INTENT(" \o io \o ")")

\* the temporary of instance i is an array: declare_tmp gives it a shape
TmpIsArray(i) == Contains(call(objs[i], "declare_tmp"), "(")

\* the temporary of instance i is initialised where it is declared
TmpIsZeroed(i) == EndsWith(call(objs[i], "declare_tmp"), " = 0")

\* merge(1, 0, x): 1 where x is true, 0 where it is false
merge(x) == [k \in DOMAIN x |-> IF x[k] THEN 1 ELSE 0]

\* c /= 0, element by element
nonzero(c) == [k \in DOMAIN c |-> c[k] # 0]

\* what reading the temporary of instance i can give
TmpValues(i) ==
    IF env[i].c = Undefined THEN Integers01(Len(env[i].x)) ELSE {env[i].c}

\* the wrapper of instance i is entered with actual argument v; an
\* INTENT(OUT) dummy holds whatever the caller's variable held
enter(i, v) ==
    /\ env[i].pc = "none"
    /\ Len(v) = 1 \/ TmpIsArray(i)
    /\ env' = [env EXCEPT ![i] =
                  [pc |-> "entered", x |-> v, from |-> 0,
                   c |-> IF TmpIsZeroed(i) THEN [k \in DOMAIN v |-> 0] ELSE Undefined]]
    /\ UNCHANGED <<TYPES, loaded, registered, objs, log, ret>>

\* the statement pre_c_call() generated runs
exec_pre_c_call(i) ==
    /\ env[i].pc = "entered"
    /\ LET self == objs[i]
           stmt == call(self, "pre_c_call")
       IN  \/ /\ stmt = ""
              /\ env' = [env EXCEPT ![i].pc = "converted"]
           \/ /\ stmt = tmp_name(self) \o " = merge(1,0," \o self.name \o ")"
              /\ env' = [env EXCEPT ![i].pc = "converted", ![i].c = merge(env[i].x)]
    /\ UNCHANGED <<TYPES, loaded, registered, objs, log, ret>>

\* the C routine is called and reads its argument
c_call_in(i) ==
    /\ env[i].pc = "converted"
    /\ Intent(i, "IN")
    /\ call(objs[i], "argument") = tmp_name(objs[i])
    /\ \E c \in TmpValues(i) : env' = [env EXCEPT ![i].pc = "called", ![i].c = c]
    /\ UNCHANGED <<TYPES, loaded, registered, objs, log, ret>>

\* the C routine is called and writes into its argument what the C routine
\* of instance i, a parameter of the same shape, was given
c_call_out(j, i) ==
    /\ env[j].pc = "converted"
    /\ Intent(j, "OUT")
    /\ call(objs[j], "argument") = tmp_name(objs[j])
    /\ env[i].pc \in {"called", "returned"}
    /\ Intent(i, "IN")
    /\ TmpIsArray(i) = TmpIsArray(j)
    /\ Len(env[i].c) = Len(env[j].x)
    /\ env' = [env EXCEPT ![j].pc = "called", ![j].c = env[i].c, ![j].from = i]
    /\ UNCHANGED <<TYPES, loaded, registered, objs, log, ret>>

\* the statement post() generated runs and the wrapper returns
exec_post(i) ==
    /\ env[i].pc = "called"
    /\ LET self == objs[i]
           stmt == call(self, "post")
       IN  \/ /\ stmt = ""
              /\ env' = [env EXCEPT ![i].pc = "returned"]
           \/ /\ stmt = self.name \o " = " \o tmp_name(self) \o " /= 0"
              /\ \E c \in TmpValues(i) :
                    env' = [env EXCEPT ![i].pc = "returned", ![i].x = nonzero(c)]
    /\ UNCHANGED <<TYPES, loaded, registered, objs, log, ret>>

NextLogical ==
    \/ class_statement
    \/ Len(objs) < 2 /\ \E t \in LogicalTags, kw \in LogicalKwArgs : construct(t, kw)
    \/ \E i \in DOMAIN objs, n \in 1..MaxLen : \E v \in Logicals(n) : enter(i, v)
    \/ \E i \in DOMAIN objs : exec_pre_c_call(i)
    \/ \E i \in DOMAIN objs : c_call_in(i)
    \/ \E j \in DOMAIN objs, i \in DOMAIN objs : c_call_out(j, i)
    \/ \E i \in DOMAIN objs : exec_post(i)

SpecLogical == Init /\ [][NextLogical]_vars

\* C8: a logical value encoded by the pre_c_call of an IN logical kind and
\* decoded by the post of an OUT logical kind is the original value, element
\* by element, for the scalar kinds and for the array kinds.
C8_LogicalRoundTrip ==
    \A j \in DOMAIN objs :
        (env[j].pc = "returned" /\ env[j].from # 0)
            => env[j].x = env[env[j].from].x

----------------------------------------------------------------------------
\* SpecInterleave: the operations of the descriptor contract are called in
\* any order on the descriptors alive together; the tmp_counter() calls made
\* on each instance are recorded.

\* the property tmp_name is read on instance i
tmp_name_property(i) ==
    /\ ret' = Returned("tmp_name", None, i, tmp_name(objs[i]))
    /\ UNCHANGED <<TYPES, loaded, registered, objs, env>>

\* the property tmp_name2 is read on instance i
tmp_name2_property(i) ==
    /\ ret' = Returned("tmp_name2", None, i, tmp_name2(objs[i]))
    /\ UNCHANGED <<TYPES, loaded, registered, objs, env>>

NextInterleave ==
    \/ class_statement
    \/ Len(objs) < MaxObjs /\ \E t \in MultiTags, kw \in DefaultKwArgs : construct(t, kw)
    \/ \E i \in DOMAIN objs : tmp_counter(i) /\ Traced(i)
    \/ \E i \in DOMAIN objs : tmp_name_property(i) /\ UNCHANGED log
    \/ \E i \in DOMAIN objs : tmp_name2_property(i) /\ UNCHANGED log
    \/ \E i \in DOMAIN objs : interface_predeclare(i) /\ UNCHANGED log
    \/ \E i \in DOMAIN objs : declare(i) /\ UNCHANGED log
    \/ \E i \in DOMAIN objs : declare_tmp(i) /\ UNCHANGED log
    \/ \E i \in DOMAIN objs : declare_cbinding_fortran(i) /\ UNCHANGED log
    \/ \E i \in DOMAIN objs : argument(i) /\ UNCHANGED log
    \/ \E i \in DOMAIN objs : use(i) /\ UNCHANGED log
    \/ \E i \in DOMAIN objs : include(i) /\ UNCHANGED log
    \/ \E i \in DOMAIN objs : pre_c_call(i) /\ UNCHANGED log
    \/ \E i \in DOMAIN objs : post(i) /\ UNCHANGED log
    \/ \E i \in DOMAIN objs : c_parameter(i) /\ UNCHANGED log

SpecInterleave == Init /\ [][NextInterleave]_vars

\* C13: in every interleaving of calls on the live instances, an instance
\* changes only through a tmp_counter() call made on it, which adds one to its
\* used_counters and changes nothing else; so used_counters of each instance
\* is the number of tmp_counter() calls made on that instance.
C13_CountersArePrivate ==
    [][/\ \A i \in DOMAIN objs :
            /\ i \in DOMAIN objs'
            /\ objs'[i] # objs[i] =>
                  /\ ret'.op = "tmp_counter"
                  /\ ret'.self = i
                  /\ objs'[i] = [objs[i] EXCEPT !.used_counters = @ + 1]
       /\ \A i \in DOMAIN objs' : objs'[i].used_counters = Len(log'[i])]_vars

\* C13 happens: of two live instances one was asked for two counters and the
\* other for one, and the last call was a declare() on the first.
C13_Witness ==
    /\ Len(objs) = 2
    /\ objs[1].used_counters = 2 /\ Len(log[1]) = 2
    /\ objs[2].used_counters = 1 /\ Len(log[2]) = 1
    /\ ret.op = "declare" /\ ret.self = 1

====
